---- MODULE Spec2Model ----
\* HackRF-Watchdog: the detection engine (SweepWorker._handle_frame of
\* src/main.py), the alert transport (AtakBridge of
\* src/hackrf_watchdog/atak_bridge.py and send_cot_for_detection of
\* src/main.py), and the pure functions they use.
\*
\* Units.  Time is counted in ticks of 1/TicksPerSec second.  Power is in
\* whole dB.  The noise floor is a fixed-point number, NFScale units per dB,
\* so that the exponential smoothing 0.9*floor + 0.1*median is exact for
\* every frame the model processes (floating-point rounding error is not
\* modelled).  A frequency is an exact rational number of Hz, written
\* [hz |-> h, frac |-> f] for h + f/FracDen Hz with 0 <= f < FracDen.
EXTENDS Integers, Sequences, FiniteSets, TLC

VARIABLES
    \* ---- environment --------------------------------------------------
    clock,            \* time.time(), in ticks
    \* ---- SweepWorker fields (src/main.py:225-242) ----------------------
    threshold_db,
    use_local_noise_floor,
    only_above_threshold,
    min_hold_time_s,  \* in ticks
    cal_gain_db,
    cal_loss_db,
    freq_ppm,
    noise_floor,      \* << >> for None, or <<floor>> in NFScale units per dB
    hold_state,       \* key -> [first_seen, last_seen, above]
    \* ---- signals emitted by the worker --------------------------------
    sig_noise,        \* sequence of values sent by noise_floor_updated
    sig_log,          \* number of log_message emissions
    sig_det,          \* sequence of lists sent by detections_found
    \* ---- the last _handle_frame call (its input and locals) -----------
    nframes,          \* number of _handle_frame calls so far
    last,             \* record of the last call, see NoCall / HandleFrame
    \* ---- what the frames have shown of each key (history variable) -----
    hist,             \* key -> [obs, runStart, touched, priorDwell]
    \* ---- the noise estimate of one frame, on its own -------------------
    nz_powers,        \* the calibrated powers of a frame
    nz_result,        \* << >>, or <<[candidates, median2]>> once computed
    \* ---- the identity of two detections, on its own --------------------
    id_cfg,           \* the bridge's identity settings
    id_freqs,         \* <<freq_mhz of the first, freq_mhz of the second>>
    id_result,        \* << >>, or <<[bridge, direct]>>: the pairs resolved
    \* --- the alert encoding on its own
    rm_det,           \* the detection whose remarks are composed
    rm_nf,            \* the noise_floor argument: << >> (None) or <<value>>
    rm_out,           \* << >> or <<the parts list that was composed>>
    cot_in,           \* the strings handed to _build_cot
    cot_out,          \* << >> or <<the event that was built>>
    \* --- the worker's signals and the main window's slots
    gq,               \* signal emissions queued for the GUI thread, in order
    gui_noise,        \* MainWindow.current_noise_floor: << >> (None) or <<v>>
    gui_table,        \* MainWindow.detections: frequency key -> dict (by id)
    det_heap,         \* the detection dicts created so far, as they are now
    det_made,         \* the same dicts as they were when the engine made them
    gui_alert,        \* the alerts the last on_detections_found call sent
    \* ---- AtakBridge fields (atak_bridge.py:101-106) --------------------
    br_cfg,           \* self.cfg
    br_sock,          \* self._sock: << >> for None, or <<socket>>
    br_last_sent,     \* self._last_sent_by_key: uid -> time
    br_ip_cache,      \* self._auto_local_ip_cache: "" for None
    \* ---- what the transport did ----------------------------------------
    br_ncalls,        \* number of send calls (either path, and send_test)
    br_call,          \* what the last call did: datagram sent, status
                      \* emitted, exception raised, probes run
    br_sent_at,       \* uid -> time the latest datagram carrying it was sent
    br_probes,        \* probe runs since the last apply_config: 0, 1, 2 = more
    \* ---- SweepWorker.run and iter_sweep_frames ---------------------------
    rw_pc,            \* where the worker thread is in run()
    rw_running,       \* self._running
    rw_bands,         \* self.bands: the "enabled" flag of each band
    rw_interval_ms,   \* self.interval_ms
    rw_band,          \* index of the band the for loop is at
    rw_any_band,      \* any_band
    rw_elapsed,       \* ticks since cycle_start
    rw_sleep,         \* ticks of the time.sleep call in progress (or the last)
    rw_proc,          \* the scanner subprocess of the current iteration
    rw_iter,          \* the current iter_sweep_frames call and how it ended
    rw_ev,            \* what the last step did (worker thread or GUI thread)
    rw_seen_stop,     \* the worker has read self._running as False
    rw_finished,      \* number of finished emissions
    \* ---- MainWindow: the worker's life cycle (src/main.py:1032-1160) ----
    lw_worker,        \* self.worker is not None
    lw_requested,     \* self.bias_tee_requested
    lw_engaged,       \* self.bias_tee_engaged
    lw_power,         \* the worker's antenna_power
    lw_starts,        \* number of SweepWorker objects constructed
    lw_stopped,       \* Stop was pressed with Bias-T requested, worker alive
    lw_ev,            \* the last call on the GUI thread and what it did
    \* ---- one _handle_frame call, statement by statement ---------------
    hf,               \* << >>, or <<the call's locals>>
    \* ---- the command-line program (cli.py, detect.py) -----------------
    cli,              \* where main() is and what it has printed
    ds_bands,         \* detect_on_sweep_stream: band name -> its state
    ds_call           \* what the last frame did in detect_on_sweep_stream

engineVars == <<threshold_db, use_local_noise_floor, only_above_threshold,
                min_hold_time_s, cal_gain_db, cal_loss_db, freq_ppm,
                noise_floor, hold_state, sig_noise, sig_log, sig_det,
                nframes, last, hist>>

noiseVars == <<nz_powers, nz_result>>

identVars == <<id_cfg, id_freqs, id_result>>

encVars == <<rm_det, rm_nf, rm_out, cot_in, cot_out>>

slotVars == <<gq, gui_noise, gui_table, det_heap, det_made, gui_alert>>

lifeVars == <<lw_worker, lw_requested, lw_engaged, lw_power, lw_starts,
              lw_stopped, lw_ev>>

hostVars == <<lifeVars, hf, cli, ds_bands, ds_call>>

bridgeVars == <<br_cfg, br_sock, br_last_sent, br_ip_cache, br_ncalls,
                br_call, br_sent_at, br_probes>>

runVars == <<rw_pc, rw_running, rw_bands, rw_interval_ms, rw_band, rw_any_band,
             rw_elapsed, rw_sleep, rw_proc, rw_iter, rw_ev, rw_seen_stop,
             rw_finished>>

vars == <<clock, engineVars, noiseVars, identVars, encVars, slotVars, hostVars, bridgeVars, runVars>>

\* ------------------------------------------------------------------------
\* Bounds of the model
\* ------------------------------------------------------------------------
MaxFrames == 4      \* _handle_frame calls in one behaviour
MaxBins == 12       \* bins of a frame whose noise estimate is computed alone
MaxShort == 5       \* bins of such a frame with three power levels
MaxCalls == 2       \* send calls in one behaviour of the transport
MaxLines == 3       \* lines one scanner invocation writes before it ends

\* ------------------------------------------------------------------------
\* Units and program constants
\* ------------------------------------------------------------------------
TicksPerSec == 2
None == -1          \* Python's None for a timestamp
Epoch0 == 100       \* time.time() when the model starts (any value >= 1 s)

RECURSIVE Pow10(_)
Pow10(n) == IF n = 0 THEN 1 ELSE 10 * Pow10(n - 1)

\* Fixed-point scale of the noise floor: a median of integers has
\* denominator 2, every smoothing step adds one decimal digit.
NFScale == 2 * Pow10(MaxFrames - 1)

MHz == 1000000
FracDen == 2 * MHz

\* ------------------------------------------------------------------------
\* Inputs: the frames the scanner can deliver and the worker's settings
\* ------------------------------------------------------------------------
Rep(v, n) == [i \in 1..n |-> v]

Frame(b, lo, bw, ps) ==
    [band |-> b, low_hz |-> lo, bin_width_hz |-> bw, powers_dbm |-> ps]

\* Band "A": 900-911 MHz in 1 MHz bins (11 bins, the trimmed-median case);
\* band "B": 100.000-100.010 MHz in 5 kHz bins (2 bins).
LowA == 900 * MHz
LowB == 100 * MHz
FrameSet ==
    { Frame("A", LowA, MHz, Rep(-90, 10) \o <<-20>>),
      Frame("A", LowA, MHz, Rep(-90, 11)),
      Frame("B", LowB, 5000, <<-20, -90>>),
      Frame("B", LowB, 5000, << >>) }

\* min_hold_time_s: none, 1 s, 6 s (2 * 6 s exceeds the reaper's 10 s)
HoldSet == {0, TicksPerSec, 6 * TicksPerSec}
\* The settings a worker is constructed with (src/main.py:1100-1113)
ConfigSet ==
    { [threshold_db |-> 10, use_local_noise_floor |-> TRUE,
       only_above_threshold |-> TRUE, cal_gain_db |-> 0, cal_loss_db |-> 0,
       freq_ppm |-> 0],
      [threshold_db |-> -50, use_local_noise_floor |-> FALSE,
       only_above_threshold |-> FALSE, cal_gain_db |-> 8, cal_loss_db |-> 3,
       freq_ppm |-> 40] }
\* Time the scanner takes to deliver the next frame: 1 s or 10.5 s
DelaySet == {TicksPerSec, 10 * TicksPerSec + 1}

\* ------------------------------------------------------------------------
\* 4.1 Calibration (src/main.py:306-312, 319-320, 363-369)
\* ------------------------------------------------------------------------
\* _net_cal_offset_db
NetCalOffsetDb(gain, loss) == gain - loss

\* powers = [p + cal_offset for p in powers_raw]
Calibrate(powers_raw, cal_offset) ==
    [i \in 1..Len(powers_raw) |-> powers_raw[i] + cal_offset]

\* Variant: the bin's lower edge instead of its centre.
Center2_LowEdge(low_hz, idx, bin_w) == 2 * low_hz + 2 * idx * bin_w

\* center_hz_raw = low_hz + (idx + 0.5) * bin_w, in half Hz; idx counts from 0
Center2(low_hz, idx, bin_w) == 2 * low_hz + (2 * idx + 1) * bin_w

\* center_hz = center_hz_raw * _freq_factor(), with
\* _freq_factor() = 1 + freq_ppm / 1e6; exact, as h + f/FracDen Hz.
\* c2 * (MHz + ppm) / FracDen is computed in parts to stay within 32 bits.
CalFreq(c2, ppm) ==
    LET a  == c2 \div MHz
        b  == c2 % MHz
        n  == c2 + a * ppm + ((b * ppm) \div MHz)
        r  == (b * ppm) % MHz
    IN  [hz |-> n \div 2, frac |-> (n % 2) * MHz + r]

\* round(freq_mhz, 6): the nearest whole Hz, ties to even
FreqKey(fq) ==
    IF 2 * fq.frac < FracDen THEN fq.hz
    ELSE IF 2 * fq.frac > FracDen THEN fq.hz + 1
    ELSE IF fq.hz % 2 = 0 THEN fq.hz ELSE fq.hz + 1

\* ------------------------------------------------------------------------
\* 4.2 Noise floor estimator (src/main.py:322-337)
\* ------------------------------------------------------------------------
RECURSIVE Insert(_, _)
Insert(s, x) ==
    IF s = << >> THEN <<x>>
    ELSE IF x <= Head(s) THEN <<x>> \o s
    ELSE <<Head(s)>> \o Insert(Tail(s), x)

\* sorted(powers)
RECURSIVE Sorted(_)
Sorted(s) == IF s = << >> THEN << >> ELSE Insert(Sorted(Tail(s)), Head(s))

\* cutoff = int(len(sorted_p) * 0.8)
Cutoff(n) == (8 * n) \div 10

\* Variant: trimming starts at 10 samples instead of above 10.
NoiseCandidates_From10(powers) ==
    LET sorted_p == Sorted(powers)
    IN  IF Len(sorted_p) >= 10
        THEN SubSeq(sorted_p, 1, (8 * Len(sorted_p)) \div 10)
        ELSE sorted_p

\* noise_candidates
NoiseCandidates(powers) ==
    LET sorted_p == Sorted(powers)
    IN  IF Len(sorted_p) > 10
        THEN SubSeq(sorted_p, 1, Cutoff(Len(sorted_p)))
        ELSE sorted_p

\* 2 * statistics.median(s) for a sorted non-empty s
Median2(s) ==
    LET n == Len(s)
    IN  IF n % 2 = 1 THEN 2 * s[(n + 1) \div 2]
        ELSE s[n \div 2] + s[n \div 2 + 1]

\* median_noise, in NFScale units
MedianNoise(powers) == Median2(NoiseCandidates(powers)) * (NFScale \div 2)

\* Variant: the weights of the old floor and the new sample exchanged.
SmoothedFloor_Swapped(prev, median_noise) ==
    IF prev = << >> THEN <<median_noise>>
    ELSE <<(prev[1] + 9 * median_noise) \div 10>>

\* the new self._noise_floor: alpha = 0.1
SmoothedFloor(prev, median_noise) ==
    IF prev = << >> THEN <<median_noise>>
    ELSE <<(9 * prev[1] + median_noise) \div 10>>

\* Variant: the threshold setting taken as absolute in both modes.
AbsThreshold_Absolute(use_local, nf, thr) == thr * NFScale

\* abs_threshold, in NFScale units (src/main.py:340-343)
AbsThreshold(use_local, nf, thr) ==
    IF use_local THEN nf + thr * NFScale ELSE thr * NFScale

\* ------------------------------------------------------------------------
\* 4.3 Hysteresis / hold-time engine (src/main.py:359-406)
\* ------------------------------------------------------------------------
Max(a, b) == IF a >= b THEN a ELSE b

\* Variant: an entry that is below keeps its first_seen when it rises.
AboveEntry_NoRestart(hs, key, now) ==
    IF key \notin DOMAIN hs
    THEN [first_seen |-> now, last_seen |-> now, above |-> TRUE]
    ELSE [hs[key] EXCEPT !.last_seen = now, !.above = TRUE]


\* st after "if p_cal >= abs_threshold:" (src/main.py:373-378)
AboveEntry(hs, key, now) ==
    IF key \notin DOMAIN hs \/ ~hs[key].above
    THEN [first_seen |-> now, last_seen |-> now, above |-> TRUE]
    ELSE [hs[key] EXCEPT !.last_seen = now, !.above = TRUE]

\* Variant: a below observation only stamps last_seen.
BelowUpdate_NoReset(hs, key, now) ==
    IF key \in DOMAIN hs /\ hs[key].above
    THEN [hs EXCEPT ![key].last_seen = now]
    ELSE hs

\* the hold state after the else branch (src/main.py:396-399)
BelowUpdate(hs, key, now) ==
    IF key \in DOMAIN hs /\ hs[key].above
    THEN [hs EXCEPT ![key] =
              [first_seen |-> None, last_seen |-> now, above |-> FALSE]]
    ELSE hs

\* dwell (src/main.py:380)
Dwell(st, now) == IF st.first_seen = None THEN 0 ELSE now - st.first_seen

\* Variant: any dwell qualifies.
Qualifies_AnyDwell(hold, dwell) == hold <= 0 \/ dwell >= 0

\* "if hold <= 0 or dwell >= hold" (src/main.py:382)
Qualifies(hold, dwell) == hold <= 0 \/ dwell >= hold

\* Variant: a later bin with the same power replaces the maximum.
TrackMax_LastWins(cur, bin) ==
    IF cur = << >> \/ bin.power >= cur[1].power THEN <<bin>> ELSE cur

\* "if max_power is None or p_cal > max_power" (src/main.py:401-406)
TrackMax(cur, bin) ==
    IF cur = << >> \/ bin.power > cur[1].power THEN <<bin>> ELSE cur

\* One iteration of "for idx in range(n_bins)"; c holds the frame's locals,
\* acc the hold state, the detections list and the running maximum.
BinStep(c, acc, idx) ==
    LET p_cal    == c.powers[idx + 1]
        p_raw    == c.powers_raw[idx + 1]
        c2       == Center2(c.low_hz, idx, c.bin_w)
        fq_raw   == CalFreq(c2, 0)
        fq       == CalFreq(c2, c.freq_ppm)
        key      == FreqKey(fq)
        isAbove  == p_cal * NFScale >= c.abs_threshold
        st       == AboveEntry(acc.hs, key, c.now)
        det      == [freq_mhz |-> fq, freq_mhz_raw |-> fq_raw,
                     power_dbm |-> p_cal, power_dbm_raw |-> p_raw,
                     cal_offset_db |-> c.cal_offset, freq_ppm |-> c.ppm_read,
                     timestamp |-> c.now, band |-> c.band]
        hs2      == IF isAbove THEN (key :> st) @@ acc.hs
                    ELSE BelowUpdate(acc.hs, key, c.now)
        dets2    == IF isAbove /\ Qualifies(c.hold, Dwell(st, c.now))
                    THEN Append(acc.dets, det) ELSE acc.dets
        max2     == TrackMax(acc.max, [power |-> p_cal, freq |-> fq,
                                       power_raw |-> p_raw,
                                       freq_raw |-> fq_raw])
    IN  [hs |-> hs2, dets |-> dets2, max |-> max2]

RECURSIVE BinLoop(_, _, _)
BinLoop(c, acc, idx) ==
    IF idx >= Len(c.powers) THEN acc
    ELSE BinLoop(c, BinStep(c, acc, idx), idx + 1)

\* ------------------------------------------------------------------------
\* 4.4 Stale-state reaper (src/main.py:408-416)
\* ------------------------------------------------------------------------
TenSeconds == 10 * TicksPerSec

\* Variant: the two terms added instead of the larger one taken.
CleanupLimit_Sum(hold) == hold * 2 + TenSeconds

\* cleanup_limit = max(hold * 2.0, 10.0)
CleanupLimit(hold) == Max(hold * 2, TenSeconds)

StaleKeys(hs, now, hold) ==
    {k \in DOMAIN hs :
        hs[k].last_seen # None /\ (now - hs[k].last_seen) > CleanupLimit(hold)}

Reap(hs, now, hold) ==
    [k \in DOMAIN hs \ StaleKeys(hs, now, hold) |-> hs[k]]

\* ------------------------------------------------------------------------
\* History of observations, kept beside the program's state: for every key
\* a frame has touched, whether its latest observation was at or above the
\* effective threshold, when the unbroken run of such observations began,
\* when it was last touched, the dwell of the last run that a below
\* observation ended (None when there was none), and since when the key
\* has had a hold-state entry without interruption (None when it has none;
\* entries are created by an above observation and deleted only by the
\* cleanup at the end of a call).
\* ------------------------------------------------------------------------
HistStep(c, h, idx) ==
    LET key     == FreqKey(CalFreq(Center2(c.low_hz, idx, c.bin_w), c.freq_ppm))
        isAbove == c.powers[idx + 1] * NFScale >= c.abs_threshold
        known   == key \in DOMAIN h
        wasUp   == known /\ h[key].obs = "above"
        hadEntry == IF known /\ h[key].touched = c.now
                    THEN h[key].born # None
                    ELSE key \in DOMAIN hold_state
        born    == IF hadEntry THEN h[key].born
                   ELSE IF isAbove THEN c.now ELSE None
        e       == IF isAbove
                   THEN [obs |-> "above",
                         runStart |-> IF wasUp THEN h[key].runStart ELSE c.now,
                         touched |-> c.now,
                         priorDwell |-> IF known THEN h[key].priorDwell ELSE None,
                         born |-> born]
                   ELSE [obs |-> "below",
                         runStart |-> None,
                         touched |-> c.now,
                         priorDwell |-> IF wasUp
                                        THEN h[key].touched - h[key].runStart
                                        ELSE IF known THEN h[key].priorDwell
                                        ELSE None,
                         born |-> born]
    IN  (key :> e) @@ h

RECURSIVE HistLoop(_, _, _)
HistLoop(c, h, idx) ==
    IF idx >= Len(c.powers) THEN h
    ELSE HistLoop(c, HistStep(c, h, idx), idx + 1)

\* ------------------------------------------------------------------------
\* SweepWorker._handle_frame (src/main.py:314-443)
\* ------------------------------------------------------------------------
NoCall == [frame |-> Frame("", 0, 0, << >>), ran |-> FALSE, now |-> None,
           prev_floor |-> << >>, median_noise |-> 0, abs_threshold |-> 0,
           hold |-> 0, detections |-> << >>, max |-> << >>, logged |-> FALSE,
           reaped |-> {}]

\* "if self.only_above_threshold: if max_power >= abs_threshold" (436-440)
LogsMax(only_above, max_power, abs_threshold) ==
    ~only_above \/ max_power * NFScale >= abs_threshold

\* Variant: the stale-entry cleanup runs before the early return.
EmptyFrameResult_Reaps(f, now) ==
    [noise_floor |-> noise_floor,
     hold_state |-> Reap(hold_state, now, min_hold_time_s),
     noise_emits |-> 0, log_emits |-> 0, det_emits |-> 0, hist |-> hist,
     call |-> [NoCall EXCEPT !.frame = f]]

\* "if not powers_raw: return" (src/main.py:315-317): nothing is touched.
EmptyFrameResult(f, now) ==
    [noise_floor |-> noise_floor, hold_state |-> hold_state,
     noise_emits |-> 0, log_emits |-> 0, det_emits |-> 0, hist |-> hist,
     call |-> [NoCall EXCEPT !.frame = f]]

\* The rest of the body (src/main.py:319-443).
FullFrameResult(f, now) ==
    LET cal_offset   == NetCalOffsetDb(cal_gain_db, cal_loss_db)
        powers       == Calibrate(f.powers_dbm, cal_offset)
        median_noise == MedianNoise(powers)
        nf           == SmoothedFloor(noise_floor, median_noise)
        abs_thr      == AbsThreshold(use_local_noise_floor, nf[1], threshold_db)
        c == [powers |-> powers, powers_raw |-> f.powers_dbm,
              low_hz |-> f.low_hz, bin_w |-> f.bin_width_hz,
              freq_ppm |-> freq_ppm, ppm_read |-> freq_ppm,
              abs_threshold |-> abs_thr,
              now |-> now, hold |-> min_hold_time_s,
              cal_offset |-> cal_offset, band |-> f.band]
        acc == BinLoop(c, [hs |-> hold_state, dets |-> << >>, max |-> << >>], 0)
        logged == LogsMax(only_above_threshold, acc.max[1].power, abs_thr)
    IN  [noise_floor |-> nf,
         hold_state |-> Reap(acc.hs, now, min_hold_time_s),
         noise_emits |-> 1,
         log_emits |-> IF logged THEN 1 ELSE 0,
         det_emits |-> IF acc.dets # << >> THEN 1 ELSE 0,
         hist |-> HistLoop(c, hist, 0),
         call |-> [frame |-> f, ran |-> TRUE, now |-> now,
                   prev_floor |-> noise_floor, median_noise |-> median_noise,
                   abs_threshold |-> abs_thr, hold |-> min_hold_time_s,
                   detections |-> acc.dets, max |-> acc.max,
                   logged |-> logged,
                   reaped |-> StaleKeys(acc.hs, now, min_hold_time_s)]]

\* The frame f arrives d ticks after the previous call and is handled;
\* now is the value time.time() returns at src/main.py:355.
FrameResult(f, now) ==
    IF f.powers_dbm = << >> THEN EmptyFrameResult(f, now)
    ELSE FullFrameResult(f, now)

\* The worker's state after the call whose outcome is r
ApplyFrame(r, now) ==
    /\ clock' = now
    /\ nframes' = nframes + 1
    /\ noise_floor' = r.noise_floor
    /\ hold_state' = r.hold_state
    /\ sig_noise' = sig_noise + r.noise_emits
    /\ sig_log' = sig_log + r.log_emits
    /\ sig_det' = sig_det + r.det_emits
    /\ hist' = r.hist
    /\ last' = r.call
    /\ UNCHANGED <<threshold_db, use_local_noise_floor, only_above_threshold,
                   min_hold_time_s, cal_gain_db, cal_loss_db, freq_ppm>>

HandleFrame(f, d) ==
    /\ nframes < MaxFrames
    /\ LET now == clock + d
       IN  ApplyFrame(FrameResult(f, now), now)
    /\ UNCHANGED <<noiseVars, identVars, encVars, slotVars, hostVars, bridgeVars,
                   runVars>>

\* ------------------------------------------------------------------------
\* 4.5 Identity resolver (src/hackrf_watchdog/atak_bridge.py:239-247,
\* src/main.py:78-79)
\* ------------------------------------------------------------------------
Digit(d) ==
    CASE d = 0 -> "0" [] d = 1 -> "1" [] d = 2 -> "2" [] d = 3 -> "3"
      [] d = 4 -> "4" [] d = 5 -> "5" [] d = 6 -> "6" [] d = 7 -> "7"
      [] d = 8 -> "8" [] d = 9 -> "9"

\* str of a natural number
RECURSIVE IntStr(_)
IntStr(n) == IF n < 10 THEN Digit(n) ELSE IntStr(n \div 10) \o Digit(n % 10)

\* n written with exactly w digits (n < 10^w)
RECURSIVE Padded(_, _)
Padded(n, w) == IF w = 0 THEN "" ELSE Padded(n \div 10, w - 1) \o Digit(n % 10)

\* The frequency fq in units of u Hz, to the nearest unit.  A tie goes to
\* the even neighbour, as Python's correctly rounded formatting does for a
\* value it holds exactly.
RoundToUnit(fq, u) ==
    LET q == fq.hz \div u
        r == fq.hz % u
    IN  IF 2 * r < u THEN q
        ELSE IF 2 * r > u \/ fq.frac > 0 THEN q + 1
        ELSE IF q % 2 = 0 THEN q ELSE q + 1

\* f"{fmhz:.2f}" (variant: two decimals)
FormatMHz2(fq) ==
    LET k == RoundToUnit(fq, 10000)
    IN  IntStr(k \div 100) \o "." \o Padded(k % 100, 2)

\* f"{fmhz:.3f}"
FormatMHz3(fq) ==
    LET k == RoundToUnit(fq, 1000)
    IN  IntStr(k \div 1000) \o "." \o Padded(k % 1000, 3)

\* fmhz > 0
Positive(fq) == fq.hz > 0 \/ (fq.hz = 0 /\ fq.frac > 0)

\* Variant: the per-frequency pair for every frequency.
PreviewIdentity_AnyFreq(cfg, fq) ==
    IF cfg.use_per_frequency_uid
    THEN LET callsign == cfg.callsign_prefix \o FormatMHz3(fq) \o "MHz"
         IN  [callsign |-> callsign, uid |-> callsign]
    ELSE [callsign |-> cfg.static_callsign, uid |-> cfg.static_uid]

\* AtakBridge.preview_identity
PreviewIdentity(cfg, fq) ==
    IF cfg.use_per_frequency_uid /\ Positive(fq)
    THEN LET callsign == cfg.callsign_prefix \o FormatMHz3(fq) \o "MHz"
         IN  [callsign |-> callsign, uid |-> callsign]
    ELSE [callsign |-> cfg.static_callsign, uid |-> cfg.static_uid]

\* callsign and uid of send_cot_for_detection (src/main.py:78-79)
DirectIdentity(fq) ==
    LET callsign == "RF-" \o FormatMHz3(fq) \o "MHz"
    IN  [callsign |-> callsign, uid |-> callsign]

Freq(h, f) == [hz |-> h, frac |-> f]

\* "callsign, uid = self.preview_identity(fmhz if fmhz > 0 else 0.0)"
\* (atak_bridge.py:265-266)
SendIdentity(cfg, fq) ==
    PreviewIdentity(cfg, IF Positive(fq) THEN fq ELSE Freq(0, 0))

\* "key = uid" (atak_bridge.py:267)
RateKey(cfg, fq) == SendIdentity(cfg, fq).uid

\* send_cot_for_detection returns before it forms an identity when
\* freq_mhz <= 0 (src/main.py:74-76)
NoIdentity == [callsign |-> "", uid |-> ""]

\* freq_mhz of the detections whose identities are compared: 910.5,
\* 910.5001, 910.5002 and 910.501 MHz, the two neighbours of 910.4995 MHz
\* that round to it at 6 decimals (0.4 Hz below and above), 910.05 and
\* 910.005 MHz, and 100.0025 MHz; and 0 MHz, a detection without a frequency.
IdentFreqs ==
    { Freq(0, 0), Freq(910500000, 0), Freq(910500100, 0), Freq(910500200, 0),
      Freq(910501000, 0),
      Freq(910499499, 1200000), Freq(910499500, 800000),
      Freq(910050000, 0), Freq(910005000, 0), Freq(100002500, 0) }

IdentConfigs ==
    { [use_per_frequency_uid |-> TRUE, callsign_prefix |-> "RF-",
       static_callsign |-> "HackRF-Watchdog", static_uid |-> "WD-1"],
      [use_per_frequency_uid |-> TRUE, callsign_prefix |-> "X",
       static_callsign |-> "HackRF-Watchdog", static_uid |-> "WD-1"],
      [use_per_frequency_uid |-> FALSE, callsign_prefix |-> "RF-",
       static_callsign |-> "HackRF-Watchdog", static_uid |-> "WD-1"] }

IdentIdle ==
    /\ id_cfg = [use_per_frequency_uid |-> TRUE, callsign_prefix |-> "RF-",
                 static_callsign |-> "HackRF-Watchdog", static_uid |-> "WD-1"]
    /\ id_freqs = <<Freq(0, 0), Freq(0, 0)>>
    /\ id_result = << >>

\* ------------------------------------------------------------------------
\* 4.7 Alert transport: AtakBridge (src/hackrf_watchdog/atak_bridge.py) and
\* send_cot_for_detection (src/main.py:60-124)
\* ------------------------------------------------------------------------
OneSecond == TicksPerSec

\* AtakBridgeConfig (atak_bridge.py:20-43); host is "239.2.3.1" (multicast)
\* or a unicast address.
BridgeConfig(en, host, bind, perfreq, suid) ==
    [enabled |-> en, host |-> host, multicast_ttl |-> 1,
     bind_local_ip |-> bind, use_per_frequency_uid |-> perfreq,
     callsign_prefix |-> "RF-", static_callsign |-> "HackRF-Watchdog",
     static_uid |-> suid]

DefaultBridgeConfig == BridgeConfig(TRUE, "239.2.3.1", "", TRUE, "WD-1")

BridgeConfigSet ==
    { DefaultBridgeConfig,
      BridgeConfig(TRUE, "239.2.3.1", "192.168.1.5", FALSE, "WD-1"),
      BridgeConfig(TRUE, "10.0.0.7", "", TRUE, "") }

\* What the operating system does during one call: which operations fail,
\* and what the local-IP probe finds ("" for nothing).  No socket option
\* is set on a socket that could not be created.
EnvSet ==
    {env \in [sock_fail : BOOLEAN, ttl_fail : BOOLEAN, mif_fail : BOOLEAN,
              send_fail : BOOLEAN, probe : {"", "192.168.1.5"}] :
        env.sock_fail => (~env.ttl_fail /\ ~env.mif_fail /\ ~env.send_fail)}

\* send_cot_for_detection sets no socket option and probes nothing
DirectEnvSet ==
    {env \in EnvSet : ~env.ttl_fail /\ ~env.mif_fail /\ env.probe = ""}

\* freq_mhz of the detections sent: 910.5 MHz and 433.92 MHz
SendFreqs == {Freq(910500000, 0), Freq(433920000, 0)}

\* AtakBridge._is_multicast_host
IsMulticastHost(host) == host = "239.2.3.1"

\* AtakBridge.resolve_local_ip_for_send, with cache the current
\* _auto_local_ip_cache; probes counts detect_preferred_local_ipv4 runs.
ResolveLocalIp(cfg, cache, env) ==
    IF cfg.bind_local_ip # "" THEN [ip |-> cfg.bind_local_ip, cache |-> cache,
                                    probes |-> 0]
    ELSE IF cache # "" THEN [ip |-> cache, cache |-> cache, probes |-> 0]
    ELSE [ip |-> env.probe, cache |-> env.probe, probes |-> 1]

\* Whether a failing setsockopt leaves _get_socket as an exception: each
\* is wrapped in "try ... except Exception: pass" (atak_bridge.py:163-174).
SockOptRaises_Unguarded(fails) == fails

SockOptRaises(fails) == FALSE

\* The transport settings a socket's options are chosen from
TransportOf(cfg) ==
    [host |-> cfg.host, multicast_ttl |-> cfg.multicast_ttl,
     bind_local_ip |-> cfg.bind_local_ip]

\* A socket object: the options applied to it (None / "" for not applied),
\* the transport settings in force when _get_socket created it, and the
\* local IP _get_socket resolved for it ("" for none; resolved tells
\* whether resolve_local_ip_for_send was called at all).
NewSocket(cfg, ttl, mif, local_ip, resolved) ==
    [ttl |-> ttl, mif |-> mif, made_for |-> TransportOf(cfg),
     local_ip |-> local_ip, resolved |-> resolved]

\* AtakBridge._get_socket with the bridge's current fields: the socket
\* returned (<< >> when the call raises), the new _sock and cache, and
\* which operations failed on the way.
GetSocket(env) ==
    IF br_sock # << >>
    THEN [exc |-> FALSE, sock |-> br_sock, cache |-> br_ip_cache,
          probes |-> 0, failed |-> {}]
    ELSE IF env.sock_fail
    THEN [exc |-> TRUE, sock |-> << >>, cache |-> br_ip_cache,
          probes |-> 0, failed |-> {"socket"}]
    ELSE IF ~IsMulticastHost(br_cfg.host)
    THEN [exc |-> FALSE, sock |-> <<NewSocket(br_cfg, None, "", "", FALSE)>>,
          cache |-> br_ip_cache, probes |-> 0, failed |-> {}]
    ELSE IF SockOptRaises(env.ttl_fail)
    THEN [exc |-> TRUE, sock |-> << >>, cache |-> br_ip_cache,
          probes |-> 0, failed |-> {"ttl"}]
    ELSE LET r   == ResolveLocalIp(br_cfg, br_ip_cache, env)
             bad == (IF env.ttl_fail THEN {"ttl"} ELSE {})
                      \cup (IF r.probes > 0 /\ r.ip = "" THEN {"autodetect"}
                            ELSE {})
                      \cup (IF r.ip # "" /\ env.mif_fail THEN {"mif"}
                            ELSE {})
         IN  IF r.ip # "" /\ SockOptRaises(env.mif_fail)
             THEN [exc |-> TRUE, sock |-> << >>, cache |-> r.cache,
                   probes |-> r.probes, failed |-> bad]
             ELSE [exc |-> FALSE,
                   sock |-> <<NewSocket(br_cfg,
                                        IF env.ttl_fail THEN None
                                        ELSE br_cfg.multicast_ttl,
                                        IF r.ip # "" /\ ~env.mif_fail
                                        THEN r.ip ELSE "",
                                        r.ip, TRUE)>>,
                   cache |-> r.cache, probes |-> r.probes, failed |-> bad]

\* Which exceptions the handler of _send_raw catches: "except Exception"
\* (atak_bridge.py:218) catches every one.
SendRawCatches_SendtoOnly(what) == what = "sendto"

SendRawCatches(what) == TRUE

\* AtakBridge._send_raw: the bridge's fields afterwards and what the call
\* did.  status is "" for no status_changed emission.
SendRaw(env, emit_success_status) ==
    LET g == GetSocket(env)
    IN  IF g.exc \/ env.send_fail
        THEN LET what == IF g.exc THEN "socket" ELSE "sendto"
                 via  == ResolveLocalIp(br_cfg, g.cache, env)
             IN  IF SendRawCatches(what)
                 THEN [sock |-> g.sock, cache |-> via.cache,
                       probes |-> g.probes + via.probes, sent |-> FALSE,
                       status |-> "Send failed", raised |-> FALSE,
                       failed |-> g.failed \cup
                                    (IF g.exc THEN {} ELSE {"sendto"})]
                 ELSE [sock |-> g.sock, cache |-> g.cache,
                       probes |-> g.probes, sent |-> FALSE, status |-> "",
                       raised |-> TRUE,
                       failed |-> g.failed \cup
                                    (IF g.exc THEN {} ELSE {"sendto"})]
        ELSE IF emit_success_status
        THEN LET via == ResolveLocalIp(br_cfg, g.cache, env)
             IN  [sock |-> g.sock, cache |-> via.cache,
                  probes |-> g.probes + via.probes, sent |-> TRUE,
                  status |-> "Sent", raised |-> FALSE, failed |-> g.failed]
        ELSE [sock |-> g.sock, cache |-> g.cache, probes |-> g.probes,
              sent |-> TRUE, status |-> "", raised |-> FALSE,
              failed |-> g.failed]

NoSend == [path |-> "", key |-> "", outcome |-> "", sent |-> FALSE,
           status |-> "", raised |-> FALSE, failed |-> {}, probes |-> 0,
           datagram |-> << >>, closed |-> << >>]

\* The probe runs are counted as none, one, or more than one (2)
ProbeCount(n) == IF n > 1 THEN 2 ELSE n

\* "if now - last < 1.0: return" (atak_bridge.py:269-272)
RateLimited(key, now) ==
    LET lastSent == IF key \in DOMAIN br_last_sent THEN br_last_sent[key]
                    ELSE 0
    IN  now - lastSent < OneSecond

\* Variant: a rate-limited call stamps the key's time all the same.
SendDetection_Stamps(fq, env) ==
    /\ br_ncalls < MaxCalls
    /\ br_ncalls' = br_ncalls + 1
    /\ LET id  == SendIdentity(br_cfg, fq)
           key == RateKey(br_cfg, fq)
       IN  IF ~br_cfg.enabled \/ RateLimited(key, clock)
           THEN /\ br_call' = [NoSend EXCEPT
                                  !.path = "bridge", !.key = key,
                                  !.outcome = IF ~br_cfg.enabled
                                              THEN "disabled"
                                              ELSE "rate-limited"]
                /\ br_last_sent' = IF br_cfg.enabled
                                   THEN (key :> clock) @@ br_last_sent
                                   ELSE br_last_sent
                /\ UNCHANGED <<br_sock, br_ip_cache, br_sent_at, br_probes>>
           ELSE LET r == SendRaw(env, FALSE)
                IN  /\ br_last_sent' = (key :> clock) @@ br_last_sent
                    /\ br_probes' = ProbeCount(br_probes + r.probes)
                    /\ br_sock' = r.sock
                    /\ br_ip_cache' = r.cache
                    /\ br_sent_at' = IF r.sent
                                     THEN (key :> clock) @@ br_sent_at
                                     ELSE br_sent_at
                    /\ br_call' =
                             [path |-> "bridge", key |-> key,
                              outcome |-> "attempted", sent |-> r.sent,
                              status |-> r.status, raised |-> r.raised,
                              failed |-> r.failed, probes |-> r.probes,
                              datagram |-> IF r.sent
                                           THEN <<[uid |-> id.uid,
                                                   callsign |-> id.callsign,
                                                   sock |-> r.sock[1]]>>
                                           ELSE << >>,
                              closed |-> << >>]
    /\ UNCHANGED <<clock, engineVars, noiseVars, identVars, encVars, slotVars, hostVars, runVars, br_cfg>>

\* AtakBridge.send_detection for a detection with freq_mhz = fq
SendDetection(fq, env) ==
    /\ br_ncalls < MaxCalls
    /\ br_ncalls' = br_ncalls + 1
    /\ LET id  == SendIdentity(br_cfg, fq)
           key == RateKey(br_cfg, fq)
       IN  IF ~br_cfg.enabled \/ RateLimited(key, clock)
           THEN /\ br_call' = [NoSend EXCEPT
                                  !.path = "bridge", !.key = key,
                                  !.outcome = IF ~br_cfg.enabled
                                              THEN "disabled"
                                              ELSE "rate-limited"]
                /\ UNCHANGED <<br_sock, br_last_sent, br_ip_cache,
                               br_sent_at, br_probes>>
           ELSE LET r == SendRaw(env, FALSE)
                IN  /\ br_last_sent' = (key :> clock) @@ br_last_sent
                    /\ br_probes' = ProbeCount(br_probes + r.probes)
                    /\ br_sock' = r.sock
                    /\ br_ip_cache' = r.cache
                    /\ br_sent_at' = IF r.sent
                                     THEN (key :> clock) @@ br_sent_at
                                     ELSE br_sent_at
                    /\ br_call' =
                             [path |-> "bridge", key |-> key,
                              outcome |-> "attempted", sent |-> r.sent,
                              status |-> r.status, raised |-> r.raised,
                              failed |-> r.failed, probes |-> r.probes,
                              datagram |-> IF r.sent
                                           THEN <<[uid |-> id.uid,
                                                   callsign |-> id.callsign,
                                                   sock |-> r.sock[1]]>>
                                           ELSE << >>,
                              closed |-> << >>]
    /\ UNCHANGED <<clock, engineVars, noiseVars, identVars, encVars, slotVars, hostVars, runVars, br_cfg>>

\* send_cot_for_detection (src/main.py:60-124), as called for every
\* detection by MainWindow.on_detections_found (src/main.py:1184-1188): a
\* new socket per call, no rate limit; an exception leaves the function.
SendCotForDetection(fq, env) ==
    /\ br_ncalls < MaxCalls
    /\ br_ncalls' = br_ncalls + 1
    /\ IF ~Positive(fq)
       THEN /\ br_call' = [NoSend EXCEPT !.path = "direct",
                                         !.outcome = "no frequency"]
            /\ UNCHANGED br_sent_at
       ELSE LET id   == DirectIdentity(fq)
                sent == ~env.sock_fail /\ ~env.send_fail
            IN  /\ br_sent_at' = IF sent THEN (id.uid :> clock) @@ br_sent_at
                                 ELSE br_sent_at
                /\ br_call' =
                      [path |-> "direct", key |-> id.uid,
                       outcome |-> "attempted", sent |-> sent,
                       status |-> "", raised |-> ~sent,
                       failed |-> IF env.sock_fail THEN {"socket"}
                                  ELSE IF env.send_fail THEN {"sendto"}
                                  ELSE {},
                       probes |-> 0,
                       datagram |-> IF sent
                                    THEN <<[uid |-> id.uid,
                                            callsign |-> id.callsign,
                                            sock |-> [ttl |-> None,
                                                      mif |-> ""]]>>
                                    ELSE << >>,
                       closed |-> << >>]
    /\ UNCHANGED <<clock, engineVars, noiseVars, identVars, encVars, slotVars, hostVars,
                   runVars, br_cfg, br_sock, br_last_sent, br_ip_cache,
                   br_probes>>

\* AtakBridge.send_test (atak_bridge.py:249-259)
SendTest(env) ==
    /\ br_ncalls < MaxCalls
    /\ br_ncalls' = br_ncalls + 1
    /\ IF ~br_cfg.enabled
       THEN /\ br_call' = [NoSend EXCEPT !.path = "test",
                                         !.outcome = "disabled",
                                         !.status = "Bridge is disabled"]
            /\ UNCHANGED <<br_sock, br_ip_cache, br_probes>>
       ELSE LET r == SendRaw(env, TRUE)
            IN  /\ br_sock' = r.sock
                /\ br_probes' = ProbeCount(br_probes + r.probes)
                /\ br_ip_cache' = r.cache
                /\ br_call' =
                      [path |-> "test", key |-> br_cfg.static_uid,
                       outcome |-> "attempted", sent |-> r.sent,
                       status |-> r.status, raised |-> r.raised,
                       failed |-> r.failed, probes |-> r.probes,
                       datagram |-> IF r.sent
                                    THEN <<[uid |-> br_cfg.static_uid,
                                            callsign |->
                                                br_cfg.static_callsign,
                                            sock |-> r.sock[1]]>>
                                    ELSE << >>,
                       closed |-> << >>]
    /\ UNCHANGED <<clock, engineVars, noiseVars, identVars, encVars, slotVars, hostVars, runVars, br_cfg,
                   br_last_sent, br_sent_at>>

\* AtakBridge._reset_socket (atak_bridge.py:123-129): the socket closed
\* (if any) and the new value of _sock
ResetSocket(sock) == [closed |-> sock, sock |-> << >>]

\* Variant: an empty static_uid is always replaced by a new one.
KeptUid_Fresh(new_uid, old_uid) ==
    IF new_uid = "" THEN "WD-new" ELSE new_uid

\* "if not new_cfg.static_uid: new_cfg.static_uid = self.cfg.static_uid or
\* f'WD-{uuid.uuid4()}'" (atak_bridge.py:115-116)
KeptUid(new_uid, old_uid) ==
    IF new_uid = "" THEN (IF old_uid # "" THEN old_uid ELSE "WD-new")
    ELSE new_uid

\* load_config (atak_bridge.py:46-63) for the stored configuration stored;
\* fresh is the identifier uuid4 produces
LoadConfig(stored, fresh) ==
    IF stored.static_uid = "" THEN [stored EXCEPT !.static_uid = fresh]
    ELSE stored


\* AtakBridge.apply_config (atak_bridge.py:114-121); "WD-new" stands for a
\* freshly generated uuid.  save_config (atak_bridge.py:66-68) opens and
\* writes the config file with no handler: when that fails (save_ok is
\* FALSE) the exception leaves apply_config after "self.cfg = new_cfg".
ApplyConfig(new_cfg, save_ok) ==
    /\ br_ncalls < MaxCalls
    /\ br_cfg' = [new_cfg EXCEPT !.static_uid =
                     KeptUid(new_cfg.static_uid, br_cfg.static_uid)]
    /\ br_probes' = 0
    /\ IF save_ok
       THEN /\ br_ip_cache' = ""
            /\ br_sock' = ResetSocket(br_sock).sock
            /\ br_call' = [NoSend EXCEPT !.path = "apply_config",
                                         !.outcome = "saved",
                                         !.status = "Settings saved",
                                         !.closed = ResetSocket(br_sock).closed]
       ELSE /\ br_call' = [NoSend EXCEPT !.path = "apply_config",
                                         !.outcome = "save failed",
                                         !.raised = TRUE]
            /\ UNCHANGED <<br_ip_cache, br_sock>>
    /\ UNCHANGED <<clock, engineVars, noiseVars, identVars, encVars, slotVars, hostVars, runVars, br_last_sent,
                   br_ncalls, br_sent_at>>

\* AtakBridge.set_enabled (atak_bridge.py:108-112), with save_config as in
\* apply_config
SetEnabled(enabled, save_ok) ==
    /\ br_ncalls < MaxCalls
    /\ br_cfg' = [br_cfg EXCEPT !.enabled = enabled]
    /\ br_call' = IF save_ok
                  THEN [NoSend EXCEPT !.path = "set_enabled",
                                      !.outcome = "set",
                                      !.status = IF enabled THEN "Enabled"
                                                 ELSE "Disabled"]
                  ELSE [NoSend EXCEPT !.path = "set_enabled",
                                      !.outcome = "save failed",
                                      !.raised = TRUE]
    /\ UNCHANGED <<clock, engineVars, noiseVars, identVars, encVars, slotVars, hostVars,
                   runVars, br_sock, br_last_sent, br_ip_cache, br_ncalls,
                   br_sent_at, br_probes>>

\* Half a second passes between two calls.
Tick ==
    /\ br_ncalls < MaxCalls
    /\ clock + 1 <= Epoch0 + OneSecond
    /\ clock' = clock + 1
    /\ UNCHANGED <<engineVars, noiseVars, identVars, encVars, slotVars, hostVars, bridgeVars, runVars>>

\* AtakBridge.__init__ (atak_bridge.py:101-106) with the loaded config cfg
BridgeInit(cfg) ==
    /\ br_cfg = cfg
    /\ br_sock = << >>
    /\ br_last_sent = << >>
    /\ br_ip_cache = ""
    /\ br_ncalls = 0
    /\ br_call = NoSend
    /\ br_sent_at = << >>
    /\ br_probes = 0

\* ------------------------------------------------------------------------
\* 5. The worker loop: SweepWorker.run (src/main.py:245-301), stop (303-304)
\* and the scanner behind iter_sweep_frames (sweep_backend.py:35-129).
\* What _handle_frame does to the engine is the subject of Spec; here the
\* call is one step of the loop.
\* ------------------------------------------------------------------------
\* A duration in milliseconds, in ticks
Ticks(ms) == (ms * TicksPerSec) \div 1000

\* self.bands as the "enabled" flags of two bands
BandsSet == {<<TRUE, TRUE>>, <<FALSE, TRUE>>, <<FALSE, FALSE>>}

\* self.interval_ms: no delay, 1 s, 60 s
IntervalSet == {0, 1000, 60000}

\* How subprocess.Popen ends: the process runs, FileNotFoundError, or
\* another OSError (not executable, no memory)
LaunchOutcomes == {"ok", "not_found", "os_error"}

\* What the scanner's stdout delivers next
LineKinds == {"data", "blank", "comment", "unparsable", "eof"}

NoProc == [state |-> "none", signals |-> << >>, waited |-> 0]

NoIter == [launch |-> "", got_data |-> FALSE, lines |-> 0, data_lines |-> 0,
           eof |-> FALSE, ended |-> "", backed_off |-> FALSE]

\* The value the worker reads from self._running at a check of run():
\* "while" (247), "band" (252), "frame" (278), "backoff" (285),
\* "bands-done" (288)
Observes_NoFrameCheck(pos, flag) == IF pos = "frame" THEN TRUE ELSE flag

Observes(pos, flag) == flag

\* time.sleep(1.0) of the error handler (src/main.py:284)
BackoffTicks_Half == OneSecond \div 2

BackoffTicks == OneSecond

\* got_data after a line of the given kind (sweep_backend.py:87-96): blank
\* and comment lines are skipped, an unparsable one raises ValueError
GotData_AnyLine(got, kind) == got \/ kind \notin {"blank", "comment"}

GotData(got, kind) == got \/ kind = "data"

\* The finally block of iter_sweep_frames (sweep_backend.py:119-129) for a
\* process that is still alive or not, and that obeys terminate within the
\* second or not.
Finalize_NoKill(proc, alive, obeys) ==
    IF proc.state # "running" \/ ~alive
    THEN [proc EXCEPT !.state = "exited"]
    ELSE IF obeys
    THEN [proc EXCEPT !.state = "exited", !.signals = <<"terminate">>]
    ELSE [proc EXCEPT !.signals = <<"terminate">>, !.waited = OneSecond]

Finalize(proc, alive, obeys) ==
    IF proc.state # "running" \/ ~alive
    THEN [proc EXCEPT !.state = "exited"]
    ELSE IF obeys
    THEN [proc EXCEPT !.state = "exited", !.signals = <<"terminate">>]
    ELSE [proc EXCEPT !.state = "exited",
                      !.signals = <<"terminate", "kill">>,
                      !.waited = OneSecond]

RunRest == <<clock, engineVars, noiseVars, identVars, encVars, slotVars, hostVars, bridgeVars, rw_bands,
             rw_interval_ms, rw_finished>>

\* worker_thread.started -> worker.run (src/main.py:1116)
StartRun ==
    /\ rw_pc = "idle"
    /\ rw_pc' = "while"
    /\ rw_ev' = "start"
    /\ UNCHANGED <<RunRest, rw_running, rw_band, rw_any_band, rw_elapsed,
                   rw_sleep, rw_proc, rw_iter, rw_seen_stop>>

\* SweepWorker.stop, called by MainWindow.stop_watchdog on the GUI thread
Stop ==
    /\ rw_running
    /\ rw_pc # "done"
    /\ rw_running' = FALSE
    /\ rw_ev' = "stop"
    /\ UNCHANGED <<RunRest, rw_pc, rw_band, rw_any_band, rw_elapsed, rw_sleep,
                   rw_proc, rw_iter, rw_seen_stop>>

\* "while self._running:" and the head of a cycle (247-249)
CycleTop ==
    /\ rw_pc = "while"
    /\ IF Observes("while", rw_running)
       THEN /\ rw_pc' = "band"
            /\ rw_band' = 1
            /\ rw_any_band' = FALSE
            /\ rw_elapsed' = 0
            /\ rw_ev' = "cycle"
            /\ UNCHANGED rw_seen_stop
       ELSE /\ rw_pc' = "finally"
            /\ rw_ev' = "saw-stop"
            /\ rw_seen_stop' = TRUE
            /\ UNCHANGED <<rw_band, rw_any_band, rw_elapsed>>
    /\ UNCHANGED <<RunRest, rw_running, rw_sleep, rw_proc, rw_iter>>

\* "for band in self.bands:" with its two tests (251-257)
BandTop ==
    /\ rw_pc = "band"
    /\ IF rw_band > Len(rw_bands)
       THEN /\ rw_pc' = "bands-done"
            /\ rw_ev' = "bands-done"
            /\ UNCHANGED <<rw_band, rw_any_band, rw_seen_stop>>
       ELSE IF ~Observes("band", rw_running)
       THEN /\ rw_pc' = "bands-done"
            /\ rw_ev' = "saw-stop"
            /\ rw_seen_stop' = TRUE
            /\ UNCHANGED <<rw_band, rw_any_band>>
       ELSE IF ~rw_bands[rw_band]
       THEN /\ rw_band' = rw_band + 1
            /\ rw_ev' = "skip-band"
            /\ UNCHANGED <<rw_pc, rw_any_band, rw_seen_stop>>
       ELSE /\ rw_any_band' = TRUE
            /\ rw_pc' = "launch"
            /\ rw_ev' = "band"
            /\ UNCHANGED <<rw_band, rw_seen_stop>>
    /\ UNCHANGED <<RunRest, rw_running, rw_elapsed, rw_sleep, rw_proc, rw_iter>>

\* Variant: an OSError other than FileNotFoundError leaves run() without
\* passing its finally block.
Launch_Unprotected(outcome) ==
    /\ rw_pc = "launch"
    /\ CASE outcome = "ok" ->
              /\ rw_proc' = [NoProc EXCEPT !.state = "running"]
              /\ rw_iter' = [NoIter EXCEPT !.launch = outcome]
              /\ rw_pc' = "read"
              /\ rw_ev' = "launch"
         [] outcome = "not_found" ->
              /\ rw_proc' = NoProc
              /\ rw_iter' = [NoIter EXCEPT !.launch = outcome,
                                           !.ended = "error"]
              /\ rw_pc' = "catch"
              /\ rw_ev' = "launch-failed"
         [] outcome = "os_error" ->
              /\ rw_proc' = NoProc
              /\ rw_iter' = [NoIter EXCEPT !.launch = outcome,
                                           !.ended = "os_error"]
              /\ rw_pc' = "done"
              /\ rw_ev' = "launch-failed"
    /\ UNCHANGED <<RunRest, rw_running, rw_band, rw_any_band, rw_elapsed,
                   rw_sleep, rw_seen_stop>>

\* The first next() of iter_sweep_frames: subprocess.Popen (68-81)
Launch(outcome) ==
    /\ rw_pc = "launch"
    /\ CASE outcome = "ok" ->
              /\ rw_proc' = [NoProc EXCEPT !.state = "running"]
              /\ rw_iter' = [NoIter EXCEPT !.launch = outcome]
              /\ rw_pc' = "read"
              /\ rw_ev' = "launch"
         [] outcome = "not_found" ->
              /\ rw_proc' = NoProc
              /\ rw_iter' = [NoIter EXCEPT !.launch = outcome,
                                           !.ended = "error"]
              /\ rw_pc' = "catch"
              /\ rw_ev' = "launch-failed"
         [] outcome = "os_error" ->
              /\ rw_proc' = NoProc
              /\ rw_iter' = [NoIter EXCEPT !.launch = outcome,
                                           !.ended = "os_error"]
              /\ rw_pc' = "finally"
              /\ rw_ev' = "launch-failed"
    /\ UNCHANGED <<RunRest, rw_running, rw_band, rw_any_band, rw_elapsed,
                   rw_sleep, rw_seen_stop>>

\* "for line in proc.stdout:" up to the yield, or the end of the output
\* with proc.wait() and the no-data test (85-117); a line takes one tick.
ReadLine(kind) ==
    /\ rw_pc = "read"
    /\ kind # "eof" => rw_iter.lines < MaxLines
    /\ rw_elapsed' = rw_elapsed + 1
    /\ IF kind = "eof"
       THEN /\ rw_proc' = Finalize([rw_proc EXCEPT !.state = "exited"],
                                   FALSE, FALSE)
            /\ IF rw_iter.got_data
               THEN /\ rw_iter' = [rw_iter EXCEPT !.eof = TRUE,
                                                  !.ended = "exhausted"]
                    /\ rw_pc' = "band"
                    /\ rw_band' = rw_band + 1
                    /\ rw_ev' = "exhausted"
               ELSE /\ rw_iter' = [rw_iter EXCEPT !.eof = TRUE,
                                                  !.ended = "error"]
                    /\ rw_pc' = "catch"
                    /\ rw_ev' = "no-data"
                    /\ UNCHANGED rw_band
       ELSE /\ rw_iter' = [rw_iter EXCEPT
                              !.lines = @ + 1,
                              !.data_lines = @ + (IF kind = "data" THEN 1
                                                  ELSE 0),
                              !.got_data = GotData(@, kind)]
            /\ rw_pc' = IF kind = "data" THEN "frame" ELSE "read"
            /\ rw_ev' = IF kind = "data" THEN "frame-yielded" ELSE "line"
            /\ UNCHANGED <<rw_proc, rw_band>>
    /\ UNCHANGED <<RunRest, rw_running, rw_any_band, rw_sleep, rw_seen_stop>>

\* The body of "for frame in iter_sweep_frames(...)" (278-280): break, which
\* closes the generator and runs its finally block, or _handle_frame.
FrameStep(alive, obeys) ==
    /\ rw_pc = "frame"
    /\ IF ~Observes("frame", rw_running)
       THEN /\ rw_proc' = Finalize(rw_proc, alive, obeys)
            /\ rw_iter' = [rw_iter EXCEPT !.ended = "abandoned"]
            /\ rw_elapsed' = rw_elapsed + rw_proc'.waited
            /\ rw_pc' = "band"
            /\ rw_band' = rw_band + 1
            /\ rw_ev' = "saw-stop"
            /\ rw_seen_stop' = TRUE
       ELSE /\ rw_pc' = "read"
            /\ rw_ev' = "handle"
            /\ UNCHANGED <<rw_proc, rw_iter, rw_elapsed, rw_band,
                           rw_seen_stop>>
    /\ UNCHANGED <<RunRest, rw_running, rw_any_band, rw_sleep>>

\* _handle_frame raises (src/main.py:280): no handler of run() matches, the
\* unwinding drops the generator, whose finally block closes the scanner,
\* and control reaches "finally:" (300).
FrameRaises(alive, obeys) ==
    /\ rw_pc = "frame"
    /\ Observes("frame", rw_running)
    /\ rw_proc' = Finalize(rw_proc, alive, obeys)
    /\ rw_iter' = [rw_iter EXCEPT !.ended = "abandoned"]
    /\ rw_elapsed' = rw_elapsed + rw_proc'.waited
    /\ rw_pc' = "finally"
    /\ rw_ev' = "handler-raised"
    /\ UNCHANGED <<RunRest, rw_running, rw_band, rw_any_band, rw_sleep,
                   rw_seen_stop>>

\* "except SweepBackendError as e:" up to the call of time.sleep (282-284)
Catch ==
    /\ rw_pc = "catch"
    /\ rw_pc' = "backoff"
    /\ rw_sleep' = BackoffTicks
    /\ rw_ev' = "error-logged"
    /\ UNCHANGED <<RunRest, rw_running, rw_band, rw_any_band, rw_elapsed,
                   rw_proc, rw_iter, rw_seen_stop>>

\* The back-off sleep returns; "if not self._running: break" (285-286)
EndBackoff ==
    /\ rw_pc = "backoff"
    /\ rw_elapsed' = rw_elapsed + rw_sleep
    /\ rw_iter' = [rw_iter EXCEPT !.backed_off = TRUE]
    /\ IF ~Observes("backoff", rw_running)
       THEN /\ rw_pc' = "bands-done"
            /\ rw_ev' = "saw-stop"
            /\ rw_seen_stop' = TRUE
            /\ UNCHANGED rw_band
       ELSE /\ rw_pc' = "band"
            /\ rw_band' = rw_band + 1
            /\ rw_ev' = "woke"
            /\ UNCHANGED rw_seen_stop
    /\ UNCHANGED <<RunRest, rw_running, rw_any_band, rw_sleep, rw_proc>>

\* After the band loop: the stop test, "No bands enabled" with its sleep,
\* and the inter-cycle delay up to the call of time.sleep (288-299)
BandsDone ==
    /\ rw_pc = "bands-done"
    /\ IF ~Observes("bands-done", rw_running)
       THEN /\ rw_pc' = "finally"
            /\ rw_ev' = "saw-stop"
            /\ rw_seen_stop' = TRUE
            /\ UNCHANGED rw_sleep
       ELSE IF ~rw_any_band
       THEN /\ rw_pc' = "idle-sleep"
            /\ rw_sleep' = OneSecond
            /\ rw_ev' = "no-bands-logged"
            /\ UNCHANGED rw_seen_stop
       ELSE /\ rw_pc' = "interval"
            /\ rw_ev' = "bands-done"
            /\ UNCHANGED <<rw_sleep, rw_seen_stop>>
    /\ UNCHANGED <<RunRest, rw_running, rw_band, rw_any_band, rw_elapsed,
                   rw_proc, rw_iter>>

\* The "No bands enabled" sleep returns
EndIdleSleep ==
    /\ rw_pc = "idle-sleep"
    /\ rw_pc' = "interval"
    /\ rw_elapsed' = rw_elapsed + rw_sleep
    /\ rw_ev' = "woke"
    /\ UNCHANGED <<RunRest, rw_running, rw_band, rw_any_band, rw_sleep,
                   rw_proc, rw_iter, rw_seen_stop>>

\* "if self.interval_ms > 0: ... time.sleep(remaining / 1000.0)" (295-299)
Interval ==
    /\ rw_pc = "interval"
    /\ LET remaining == Ticks(rw_interval_ms) - rw_elapsed
       IN  IF rw_interval_ms > 0 /\ remaining > 0
           THEN /\ rw_pc' = "interval-sleep"
                /\ rw_sleep' = remaining
                /\ rw_ev' = "sleep"
           ELSE /\ rw_pc' = "while"
                /\ rw_ev' = "no-sleep"
                /\ UNCHANGED rw_sleep
    /\ UNCHANGED <<RunRest, rw_running, rw_band, rw_any_band, rw_elapsed,
                   rw_proc, rw_iter, rw_seen_stop>>

\* The inter-cycle sleep returns
EndIntervalSleep ==
    /\ rw_pc = "interval-sleep"
    /\ rw_pc' = "while"
    /\ rw_ev' = "woke"
    /\ UNCHANGED <<RunRest, rw_running, rw_band, rw_any_band, rw_elapsed,
                   rw_sleep, rw_proc, rw_iter, rw_seen_stop>>

\* "finally: self.finished.emit()" (300-301)
Finally ==
    /\ rw_pc = "finally"
    /\ rw_pc' = "done"
    /\ rw_finished' = rw_finished + 1
    /\ rw_ev' = "finished"
    /\ UNCHANGED <<clock, engineVars, noiseVars, identVars, encVars, slotVars, hostVars, bridgeVars,
                   rw_bands, rw_interval_ms, rw_running, rw_band, rw_any_band,
                   rw_elapsed, rw_sleep, rw_proc, rw_iter, rw_seen_stop>>

\* ---- MainWindow's handlers that reach into the worker (GUI thread) -----
\* Everything a GUI handler leaves alone but the settings of the worker
GuiRest == <<clock, noiseVars, identVars, encVars, slotVars, hostVars, bridgeVars, rw_pc, rw_running,
             rw_bands, rw_interval_ms, rw_band, rw_any_band, rw_elapsed,
             rw_sleep, rw_proc, rw_iter, rw_seen_stop, rw_finished,
             only_above_threshold, min_hold_time_s, noise_floor, hold_state,
             sig_noise, sig_log, sig_det, nframes, last, hist>>

\* "self.worker is not None": from start_watchdog to on_worker_finished
WorkerExists == rw_pc # "done"

\* QDoubleSpinBox.setRange keeps the value inside the new range
Clamp(v, lo, hi) == IF v < lo THEN lo ELSE IF v > hi THEN hi ELSE v

\* MainWindow.on_cal_changed (src/main.py:859-868)
OnCalChanged(gain, loss) ==
    /\ WorkerExists
    /\ cal_gain_db' = gain
    /\ cal_loss_db' = loss
    /\ rw_ev' = "gui-write"
    /\ UNCHANGED <<GuiRest, threshold_db, use_local_noise_floor, freq_ppm>>

\* MainWindow.on_ppm_changed (src/main.py:870-873)
OnPpmChanged(value) ==
    /\ WorkerExists
    /\ freq_ppm' = value
    /\ rw_ev' = "gui-write"
    /\ UNCHANGED <<GuiRest, threshold_db, use_local_noise_floor, cal_gain_db,
                   cal_loss_db>>

\* MainWindow.on_threshold_changed (src/main.py:900-903)
OnThresholdChanged(value) ==
    /\ WorkerExists
    /\ threshold_db' = value
    /\ rw_ev' = "gui-write"
    /\ UNCHANGED <<GuiRest, use_local_noise_floor, cal_gain_db, cal_loss_db,
                   freq_ppm>>

\* MainWindow.on_use_noise_floor_toggled (src/main.py:877-898): setRange
\* and setValue change the spin box, whose valueChanged signal runs
\* on_threshold_changed; the spin box shows the worker's threshold.
OnUseNoiseFloorToggled(checked) ==
    /\ WorkerExists
    /\ LET ranged == IF checked THEN Clamp(threshold_db, 0, 120)
                     ELSE Clamp(threshold_db, -150, 50)
       IN  threshold_db' = IF checked /\ ranged < 0 THEN 3 ELSE ranged
    /\ use_local_noise_floor' = checked
    /\ rw_ev' = "gui-write"
    /\ UNCHANGED <<GuiRest, cal_gain_db, cal_loss_db, freq_ppm>>

\* The steps of the GUI thread that touch the worker's settings
GuiStep ==
    \/ \E cal \in {<<0, 0>>, <<8, 3>>} : OnCalChanged(cal[1], cal[2])
    \/ \E value \in {0, 40} : OnPpmChanged(value)
    \/ \E value \in {10, -50} : OnThresholdChanged(value)
    \/ \E checked \in BOOLEAN : OnUseNoiseFloorToggled(checked)

\* The steps of the worker thread
WorkerStep ==
    \/ StartRun
    \/ CycleTop
    \/ BandTop
    \/ \E outcome \in LaunchOutcomes : Launch(outcome)
    \/ \E kind \in LineKinds : ReadLine(kind)
    \/ \E alive \in BOOLEAN, obeys \in BOOLEAN : FrameStep(alive, obeys)
    \/ \E alive \in BOOLEAN, obeys \in BOOLEAN : FrameRaises(alive, obeys)
    \/ Catch
    \/ EndBackoff
    \/ BandsDone
    \/ EndIdleSleep
    \/ Interval
    \/ EndIntervalSleep
    \/ Finally

\* SweepWorker.__init__ (src/main.py:225-242) as far as run() reads it
RunInit(bands, interval_ms) ==
    /\ rw_pc = "idle"
    /\ rw_running = TRUE
    /\ rw_bands = bands
    /\ rw_interval_ms = interval_ms
    /\ rw_band = 1
    /\ rw_any_band = FALSE
    /\ rw_elapsed = 0
    /\ rw_sleep = 0
    /\ rw_proc = NoProc
    /\ rw_iter = NoIter
    /\ rw_ev = ""
    /\ rw_seen_stop = FALSE
    /\ rw_finished = 0

RunIdle == RunInit(<<TRUE, TRUE>>, 0)

\* ------------------------------------------------------------------------
\* 4.8 Alert encoding: the remarks of a detection
\* (src/hackrf_watchdog/atak_bridge.py:275-325, src/main.py:81-108)
\* Powers, offsets and the ppm correction are in hundredths of their unit.
\* ------------------------------------------------------------------------
Abs(x) == IF x < 0 THEN 0 - x ELSE x

\* The 0.05 of "abs(...) >= 0.05", in hundredths
RemarkTolerance == 5

\* Variant: a value is shown only when it exceeds the tolerance.
Shown_Strict(x) == Abs(x) > RemarkTolerance

\* "abs(x) >= 0.05"
Shown(x) == Abs(x) >= RemarkTolerance

\* One element of parts: the field's label, the number it renders and the
\* unit or text that goes with it
Part(field, value, text) == [field |-> field, value |-> value, text |-> text]

\* The optional calibration, raw-power and ppm parts (atak_bridge.py:286-312,
\* src/main.py:83-108), the same in both encoders
CalParts(det) ==
    (IF Shown(det.cal_offset_db)
     THEN <<Part("Cal offset", det.cal_offset_db, "dB")>> ELSE << >>)
    \o (IF Shown(det.power_dbm_raw - det.power_dbm)
        THEN <<Part("Raw", det.power_dbm_raw, "dB")>> ELSE << >>)
    \o (IF Shown(det.freq_ppm)
        THEN <<Part("PPM", det.freq_ppm, "")>> ELSE << >>)

\* The noise-floor and band parts (atak_bridge.py:314-323, src/main.py:102-106)
TailParts(det, nf) ==
    (IF nf # << >>
     THEN <<Part("Noise floor", nf[1], "dB"),
            Part("Above noise", det.power_dbm - nf[1], "dB")>>
     ELSE << >>)
    \o (IF det.band # "" THEN <<Part("Band", 0, det.band)>> ELSE << >>)

\* parts of AtakBridge.send_detection (atak_bridge.py:275-323)
BridgeParts(det, nf) ==
    (IF Positive(det.freq_mhz)
     THEN <<Part("Freq", RoundToUnit(det.freq_mhz, 1000), "MHz")>> ELSE << >>)
    \o <<Part("Power", det.power_dbm, "dB")>>
    \o CalParts(det) \o TailParts(det, nf)

\* parts of send_cot_for_detection (src/main.py:81-106)
DirectParts(det, nf) ==
    <<Part("Freq", RoundToUnit(det.freq_mhz, 1000), "MHz"),
      Part("Power", det.power_dbm, "dB")>>
    \o CalParts(det) \o TailParts(det, nf)

\* The detections encoded: power -20.00 dB; a raw power equal to it, 0.04,
\* 0.05 and 0.10 dB below it and 0.05 dB above it; offsets and ppm values
\* around the tolerance.
RemarkDets ==
    [freq_mhz : {Freq(910500000, 0), Freq(0, 0)},
     power_dbm : {-2000},
     power_dbm_raw : {-2000, -2004, -2005, -2010, -1995},
     cal_offset_db : {-5, -4, 0, 4, 5, 10},
     freq_ppm : {-5, 0, 4, 5},
     band : {"", "ISM"}]

RemarkFloors == {<< >>, <<-9000>>}

\* AtakBridge.send_detection composes the remarks of rm_det
ComposeBridge ==
    /\ rm_out = << >>
    /\ rm_out' = <<[path |-> "bridge", encoded |-> TRUE,
                    parts |-> BridgeParts(rm_det, rm_nf)]>>
    /\ UNCHANGED <<clock, engineVars, noiseVars, identVars, rm_det, rm_nf,
                   cot_in, cot_out, slotVars, hostVars, bridgeVars, runVars>>

\* send_cot_for_detection composes them, unless freq_mhz <= 0
\* (src/main.py:74-76)
ComposeDirect ==
    /\ rm_out = << >>
    /\ rm_out' = IF Positive(rm_det.freq_mhz)
                 THEN <<[path |-> "direct", encoded |-> TRUE,
                         parts |-> DirectParts(rm_det, rm_nf)]>>
                 ELSE <<[path |-> "direct", encoded |-> FALSE,
                         parts |-> << >>]>>
    /\ UNCHANGED <<clock, engineVars, noiseVars, identVars, rm_det, rm_nf,
                   cot_in, cot_out, slotVars, hostVars, bridgeVars, runVars>>

\* ------------------------------------------------------------------------
\* 4.9 Alert encoding: the event document
\* (src/hackrf_watchdog/atak_bridge.py:183-206, src/main.py:30-57)
\* A text is a sequence of tokens: each of the characters & < > " on its
\* own, and runs of other characters.
\* ------------------------------------------------------------------------
AMP == "&"
LT == "<"
GT == ">"
QUOT == "\""

\* Variant: the double quote is replaced too.
EscapeToken_Quote(tok) ==
    IF tok = AMP THEN <<AMP, "amp;">>
    ELSE IF tok = GT THEN <<AMP, "gt;">>
    ELSE IF tok = LT THEN <<AMP, "lt;">>
    ELSE IF tok = QUOT THEN <<AMP, "quot;">>
    ELSE <<tok>>

\* xml.sax.saxutils.escape on one character or run: & > < are replaced,
\* nothing else is
EscapeToken(tok) ==
    IF tok = AMP THEN <<AMP, "amp;">>
    ELSE IF tok = GT THEN <<AMP, "gt;">>
    ELSE IF tok = LT THEN <<AMP, "lt;">>
    ELSE <<tok>>

\* escape(text)
RECURSIVE Escape(_)
Escape(text) ==
    IF text = << >> THEN << >>
    ELSE EscapeToken(Head(text)) \o Escape(Tail(text))

\* name="value" with the value already escaped
Attr(intro, value) == <<intro, QUOT>> \o value \o <<QUOT>>

\* A rendered time, latitude or longitude: digits and punctuation only
Stamp == "2026-01-01T00:00:00.000Z"
Coord == "46.848780"

\* The f-string both encoders fill in; whitespace between elements is " "
EventDocument(uid, cot_type, callsign, group_name, group_role, remarks) ==
    <<LT>> \o Attr("event version=", <<"2.0">>)
      \o Attr(" uid=", uid) \o Attr(" type=", cot_type)
      \o Attr(" how=", <<"m-g">>) \o Attr(" time=", <<Stamp>>)
      \o Attr(" start=", <<Stamp>>) \o Attr(" stale=", <<Stamp>>) \o <<GT>>
    \o <<" ", LT>> \o Attr("point lat=", <<Coord>>) \o Attr(" lon=", <<Coord>>)
      \o Attr(" hae=", <<"0">>) \o Attr(" ce=", <<"9999999">>)
      \o Attr(" le=", <<"9999999">>) \o <<" /", GT>>
    \o <<" ", LT, "detail", GT>>
    \o <<" ", LT>> \o Attr("contact callsign=", callsign) \o <<" /", GT>>
    \o <<" ", LT>> \o Attr("__group name=", group_name)
      \o Attr(" role=", group_role) \o <<" /", GT>>
    \o <<" ", LT, "remarks", GT>> \o remarks \o <<LT, "/remarks", GT>>
    \o <<" ", LT, "/detail", GT>>
    \o <<" ", LT, "/event", GT>>

\* AtakBridge._build_cot(uid, callsign, remarks) under the settings cfg
BridgeBuildCot(cfg, uid, callsign, remarks) ==
    EventDocument(Escape(uid), Escape(cfg.cot_type), Escape(callsign),
                  Escape(cfg.group_name), Escape(cfg.group_role),
                  IF remarks # << >> THEN Escape(remarks) ELSE << >>)

\* _build_cot(lat, lon, uid, callsign, remarks) of src/main.py
DirectBuildCot(uid, callsign, remarks) ==
    EventDocument(Escape(uid), <<"a-f-G-U-C">>, Escape(callsign),
                  <<"Cyan">>, <<"Team">>,
                  IF remarks # << >> THEN Escape(remarks) ELSE << >>)

\* Strings a user can type into the settings dialog or put in the
\* settings file, and a band name
PlainText == <<"HackRF-Watchdog">>
AmpText == <<"R", AMP, "D">>
AngleText == <<"a", LT, "b", GT>>
QuoteText == <<"Team ", QUOT, "A", QUOT>>
SplitText == <<"x", QUOT, " y=", QUOT, "1">>

CotInputs ==
    [uid : {PlainText, AmpText, AngleText, QuoteText, SplitText},
     callsign : {PlainText, AmpText, QuoteText},
     cot_type : {<<"a-f-G-U-C">>, AngleText},
     group_name : {<<"Cyan">>, QuoteText},
     group_role : {<<"Team">>, AmpText},
     remarks : {<< >>, PlainText, AngleText, QuoteText}]

\* AtakBridge._build_cot is called
BuildCotBridge ==
    /\ cot_out = << >>
    /\ cot_out' = <<[path |-> "bridge",
                     xml |-> BridgeBuildCot(cot_in, cot_in.uid,
                                            cot_in.callsign, cot_in.remarks)]>>
    /\ UNCHANGED <<clock, engineVars, noiseVars, identVars, rm_det, rm_nf,
                   rm_out, cot_in, slotVars, hostVars, bridgeVars, runVars>>

\* _build_cot of src/main.py is called
BuildCotDirect ==
    /\ cot_out = << >>
    /\ cot_out' = <<[path |-> "direct",
                     xml |-> DirectBuildCot(cot_in.uid, cot_in.callsign,
                                            cot_in.remarks)]>>
    /\ UNCHANGED <<clock, engineVars, noiseVars, identVars, rm_det, rm_nf,
                   rm_out, cot_in, slotVars, hostVars, bridgeVars, runVars>>

RemarkIdle ==
    /\ rm_det = [freq_mhz |-> Freq(0, 0), power_dbm |-> 0, power_dbm_raw |-> 0,
                 cal_offset_db |-> 0, freq_ppm |-> 0, band |-> ""]
    /\ rm_nf = << >>
    /\ rm_out = << >>

CotIdle ==
    /\ cot_in = << >>
    /\ cot_out = << >>

EncIdle == RemarkIdle /\ CotIdle

\* ------------------------------------------------------------------------
\* 4.10 The worker's signals and the main window's slots
\* (src/main.py:337, 442-443, 1115-1123, 1165-1188)
\* The worker lives in its own thread (moveToThread, src/main.py:1115), so
\* each emission is queued for the GUI thread and its slot runs later, in
\* the order of emission; the worker goes on without waiting.
\* ------------------------------------------------------------------------
\* A queued emission of frame n: for noise_floor_updated the value, for
\* detections_found the dicts (by id) and, beside them, the worker's noise
\* floor when the list was emitted
NoiseEvent(n, value) ==
    [kind |-> "noise", frame |-> n, value |-> value, ids |-> << >>]

DetsEvent(n, ids, value) ==
    [kind |-> "dets", frame |-> n, value |-> value, ids |-> ids]

NoAlert == [frame |-> 0, count |-> 0, noise_floor |-> << >>,
            emitted_floor |-> 0]

\* _handle_frame for the frame f, with its emissions queued
EmitFrame(f, d) ==
    /\ nframes < MaxFrames
    /\ LET now  == clock + d
           r    == FrameResult(f, now)
           n    == nframes + 1
           base == Len(det_heap)
           ids  == [i \in 1..Len(r.call.detections) |-> base + i]
       IN  /\ ApplyFrame(r, now)
           /\ gq' = gq \o (IF r.noise_emits = 1
                           THEN <<NoiseEvent(n, r.noise_floor[1])>>
                           ELSE << >>)
                       \o (IF r.det_emits = 1
                           THEN <<DetsEvent(n, ids, r.noise_floor[1])>>
                           ELSE << >>)
           /\ det_heap' = det_heap \o r.call.detections
           /\ det_made' = det_made \o r.call.detections
    /\ UNCHANGED <<gui_noise, gui_table, gui_alert>>
    /\ UNCHANGED <<noiseVars, identVars, encVars, hostVars, bridgeVars,
                   runVars>>

\* MainWindow.on_noise_floor_updated (src/main.py:1165-1169)
OnNoiseFloorUpdated ==
    /\ gq # << >>
    /\ Head(gq).kind = "noise"
    /\ gui_noise' = <<Head(gq).value>>
    /\ gq' = Tail(gq)
    /\ UNCHANGED <<gui_table, det_heap, det_made, gui_alert>>
    /\ UNCHANGED <<clock, engineVars, noiseVars, identVars, encVars,
                   hostVars, bridgeVars, runVars>>

\* Variant: the table entry is always replaced by the new dict.
TableStep_Replace(acc, id) ==
    [acc EXCEPT !.table = (FreqKey(acc.heap[id].freq_mhz) :> id) @@ acc.table]

\* One iteration of the first loop of on_detections_found
\* (src/main.py:1173-1179)
TableStep(acc, id) ==
    LET d   == acc.heap[id]
        key == FreqKey(d.freq_mhz)
    IN  IF key \notin DOMAIN acc.table
           \/ d.power_dbm > acc.heap[acc.table[key]].power_dbm
        THEN [acc EXCEPT !.table = (key :> id) @@ acc.table]
        ELSE [acc EXCEPT !.heap[acc.table[key]].timestamp = d.timestamp]

RECURSIVE TableLoop(_, _, _)
TableLoop(ids, i, acc) ==
    IF i > Len(ids) THEN acc
    ELSE TableLoop(ids, i + 1, TableStep(acc, ids[i]))

\* MainWindow.on_detections_found (src/main.py:1171-1188): the table is
\* updated, then one alert per detection is sent with
\* noise_floor = self.current_noise_floor
OnDetectionsFound ==
    /\ gq # << >>
    /\ Head(gq).kind = "dets"
    /\ LET ev  == Head(gq)
           acc == TableLoop(ev.ids, 1, [table |-> gui_table,
                                        heap |-> det_heap])
       IN  /\ gui_table' = acc.table
           /\ det_heap' = acc.heap
           /\ gui_alert' = [frame |-> ev.frame, count |-> Len(ev.ids),
                            noise_floor |-> gui_noise,
                            emitted_floor |-> ev.value]
    /\ gq' = Tail(gq)
    /\ UNCHANGED <<gui_noise, det_made>>
    /\ UNCHANGED <<clock, engineVars, noiseVars, identVars, encVars,
                   hostVars, bridgeVars, runVars>>

SlotIdle ==
    /\ gq = << >>
    /\ gui_noise = << >>
    /\ gui_table = << >>
    /\ det_heap = << >>
    /\ det_made = << >>
    /\ gui_alert = NoAlert

\* No life-cycle call has been made: MainWindow.__init__
\* (src/main.py:455-468)
NoLifeCall == [call |-> "", outcome |-> "", offs |-> 0]

LifeIdle ==
    /\ lw_worker = FALSE
    /\ lw_requested = FALSE
    /\ lw_engaged = FALSE
    /\ lw_power = FALSE
    /\ lw_starts = 0
    /\ lw_stopped = FALSE
    /\ lw_ev = NoLifeCall

\* main() has not started
CliIdle == cli = [pc |-> "start", out |-> << >>, status |-> None,
                  launch |-> "", detect |-> FALSE, consumed |-> 0]

StreamIdle ==
    /\ ds_bands = << >>
    /\ ds_call = << >>

HostIdle ==
    /\ LifeIdle
    /\ hf = << >>
    /\ CliIdle
    /\ StreamIdle

\* A worker as constructed with settings cfg and hold time hold
\* (src/main.py:225-242), before its first frame.
EngineInit(cfg, hold) ==
    /\ clock = Epoch0
    /\ threshold_db = cfg.threshold_db
    /\ use_local_noise_floor = cfg.use_local_noise_floor
    /\ only_above_threshold = cfg.only_above_threshold
    /\ cal_gain_db = cfg.cal_gain_db
    /\ cal_loss_db = cfg.cal_loss_db
    /\ freq_ppm = cfg.freq_ppm
    /\ min_hold_time_s = hold
    /\ noise_floor = << >>
    /\ hold_state = << >>
    /\ sig_noise = 0
    /\ sig_log = 0
    /\ sig_det = 0
    /\ nframes = 0
    /\ last = NoCall
    /\ hist = << >>

DefaultConfig ==
    [threshold_db |-> 10, use_local_noise_floor |-> TRUE,
     only_above_threshold |-> TRUE, cal_gain_db |-> 0, cal_loss_db |-> 0,
     freq_ppm |-> 0]

NoiseIdle == nz_powers = << >> /\ nz_result = << >>

Init ==
    /\ \E cfg \in ConfigSet, hold \in HoldSet : EngineInit(cfg, hold)
    /\ NoiseIdle
    /\ IdentIdle
    /\ EncIdle
    /\ SlotIdle
    /\ HostIdle
    /\ BridgeInit(DefaultBridgeConfig)
    /\ RunIdle

Next ==
    \E f \in FrameSet, d \in DelaySet : HandleFrame(f, d)

Spec == Init /\ [][Next]_vars

\* ------------------------------------------------------------------------
\* The engine fed by a scanner whose lines carry any hz_bin_width:
\* parse_hackrf_sweep_line (sweep_backend.py:10-32) accepts every float, so
\* a frame can arrive with a zero or negative bin_width_hz.
\* ------------------------------------------------------------------------
AnyWidthFrameSet ==
    { Frame("A", LowA, 0, Rep(-90, 10) \o <<-20>>),
      Frame("A", LowA, 0 - MHz, <<-20, -90>>),
      Frame("A", LowA, MHz, Rep(-90, 11)) }

NextAnyWidth ==
    \E f \in AnyWidthFrameSet, d \in DelaySet : HandleFrame(f, d)

SpecAnyWidth == Init /\ [][NextAnyWidth]_vars

\* ------------------------------------------------------------------------
\* The per-frame noise sample on its own (src/main.py:323-329): the
\* calibrated powers of one non-empty frame are drawn from two power levels
\* (up to MaxBins bins) or three (up to MaxShort bins).
\* ------------------------------------------------------------------------
PowerLevels2 == {-90, -20}
PowerLevels3 == {-90, -60, -20}

NoisePowers ==
    UNION {[1..n -> PowerLevels2] : n \in 1..MaxBins}
        \cup UNION {[1..n -> PowerLevels3] : n \in 1..MaxShort}

EstimateNoise ==
    /\ nz_result = << >>
    /\ nz_result' = <<[candidates |-> NoiseCandidates(nz_powers),
                       median2 |-> Median2(NoiseCandidates(nz_powers))]>>
    /\ UNCHANGED <<clock, engineVars, nz_powers, identVars, encVars, slotVars, hostVars, bridgeVars,
                   runVars>>

InitNoise ==
    /\ EngineInit(DefaultConfig, 0)
    /\ nz_powers \in NoisePowers
    /\ nz_result = << >>
    /\ IdentIdle
    /\ EncIdle
    /\ SlotIdle
    /\ HostIdle
    /\ BridgeInit(DefaultBridgeConfig)
    /\ RunIdle

NextNoise == EstimateNoise

SpecNoise == InitNoise /\ [][NextNoise]_vars

\* ------------------------------------------------------------------------
\* The identity of two detections on its own: both resolvers applied to
\* both frequencies.
\* ------------------------------------------------------------------------
ResolveIdentities ==
    /\ id_result = << >>
    /\ id_result' =
          <<[bridge |-> <<PreviewIdentity(id_cfg, id_freqs[1]),
                          PreviewIdentity(id_cfg, id_freqs[2])>>,
             direct |-> <<IF Positive(id_freqs[1])
                          THEN DirectIdentity(id_freqs[1]) ELSE NoIdentity,
                          IF Positive(id_freqs[2])
                          THEN DirectIdentity(id_freqs[2]) ELSE NoIdentity>>,
             key |-> <<RateKey(id_cfg, id_freqs[1]),
                       RateKey(id_cfg, id_freqs[2])>>]>>
    /\ UNCHANGED <<clock, engineVars, noiseVars, id_cfg, id_freqs, encVars, slotVars, hostVars,
                   bridgeVars, runVars>>

InitIdent ==
    /\ EngineInit(DefaultConfig, 0)
    /\ NoiseIdle
    /\ id_cfg \in IdentConfigs
    /\ id_freqs \in IdentFreqs \X IdentFreqs
    /\ id_result = << >>
    /\ EncIdle
    /\ SlotIdle
    /\ HostIdle
    /\ BridgeInit(DefaultBridgeConfig)
    /\ RunIdle

NextIdent == ResolveIdentities

SpecIdent == InitIdent /\ [][NextIdent]_vars

\* ------------------------------------------------------------------------
\* The alert transport: detections are sent through the bridge or through
\* send_cot_for_detection, the settings dialog saves and toggles, time
\* passes.
\* ------------------------------------------------------------------------
\* The configuration file of a first run: no static_uid yet
StoredConfig == BridgeConfig(TRUE, "239.2.3.1", "", TRUE, "")

InitBridge ==
    /\ EngineInit(DefaultConfig, 0)
    /\ NoiseIdle
    /\ IdentIdle
    /\ EncIdle
    /\ SlotIdle
    /\ HostIdle
    /\ BridgeInit(LoadConfig(StoredConfig, "WD-1"))
    /\ RunIdle

\* What can happen to the operations a bridge call attempts in the
\* current state: a socket is created only when there is none, its
\* multicast options are set only then and only for a multicast host, and
\* a disabled bridge attempts nothing.
LiveEnvSet ==
    {env \in EnvSet :
        /\ br_sock # << >> => ~env.sock_fail
        /\ (br_sock # << >> \/ ~IsMulticastHost(br_cfg.host))
              => (~env.ttl_fail /\ ~env.mif_fail)
        /\ ~br_cfg.enabled => (~env.sock_fail /\ ~env.send_fail
                                  /\ env.probe = "")}

NextBridge ==
    \/ \E fq \in SendFreqs, env \in LiveEnvSet : SendDetection(fq, env)
    \/ \E fq \in SendFreqs, env \in DirectEnvSet : SendCotForDetection(fq, env)
    \/ \E env \in LiveEnvSet : SendTest(env)
    \/ \E cfg \in BridgeConfigSet, save_ok \in BOOLEAN :
          ApplyConfig(cfg, save_ok)
    \/ \E en \in BOOLEAN, save_ok \in BOOLEAN : SetEnabled(en, save_ok)
    \/ Tick

SpecBridge == InitBridge /\ [][NextBridge]_vars

\* ------------------------------------------------------------------------
\* The worker loop on its own: the worker thread steps through run() while
\* the GUI thread may call stop() at any point.  Every step of the worker
\* thread is eventually taken (the thread is scheduled, a sleep returns, the
\* scanner writes its next line or ends).
\* ------------------------------------------------------------------------
InitRun ==
    /\ EngineInit(DefaultConfig, 0)
    /\ NoiseIdle
    /\ IdentIdle
    /\ EncIdle
    /\ SlotIdle
    /\ HostIdle
    /\ BridgeInit(DefaultBridgeConfig)
    /\ \E bands \in BandsSet, interval_ms \in IntervalSet :
          RunInit(bands, interval_ms)

NextRun == WorkerStep \/ Stop

SpecRun == InitRun /\ [][NextRun]_vars

SpecRunFair == SpecRun /\ WF_vars(WorkerStep)

\* ------------------------------------------------------------------------
\* The remarks of one detection on their own, composed by either encoder
\* ------------------------------------------------------------------------
InitRemarks ==
    /\ EngineInit(DefaultConfig, 0)
    /\ NoiseIdle
    /\ IdentIdle
    /\ rm_det \in RemarkDets
    /\ rm_nf \in RemarkFloors
    /\ rm_out = << >>
    /\ CotIdle
    /\ SlotIdle
    /\ HostIdle
    /\ BridgeInit(DefaultBridgeConfig)
    /\ RunIdle

NextRemarks == ComposeBridge \/ ComposeDirect

SpecRemarks == InitRemarks /\ [][NextRemarks]_vars

\* ------------------------------------------------------------------------
\* The event document on its own, built by either encoder
\* ------------------------------------------------------------------------
InitCot ==
    /\ EngineInit(DefaultConfig, 0)
    /\ NoiseIdle
    /\ IdentIdle
    /\ RemarkIdle
    /\ cot_in \in CotInputs
    /\ cot_out = << >>
    /\ SlotIdle
    /\ HostIdle
    /\ BridgeInit(DefaultBridgeConfig)
    /\ RunIdle

NextCot == BuildCotBridge \/ BuildCotDirect

SpecCot == InitCot /\ [][NextCot]_vars

\* ------------------------------------------------------------------------
\* The engine in the worker thread with the main window's slots in the GUI
\* thread: frames with and without a detection arrive, the queued
\* emissions are delivered whenever the GUI thread gets to them.
\* ------------------------------------------------------------------------
FeedFrames == {f \in FrameSet : f.powers_dbm # << >>}

InitFeed ==
    /\ EngineInit(DefaultConfig, 0)
    /\ NoiseIdle
    /\ IdentIdle
    /\ EncIdle
    /\ SlotIdle
    /\ HostIdle
    /\ BridgeInit(DefaultBridgeConfig)
    /\ RunIdle

NextFeed ==
    \/ \E f \in FeedFrames, d \in DelaySet : EmitFrame(f, d)
    \/ OnNoiseFloorUpdated
    \/ OnDetectionsFound

SpecFeed == InitFeed /\ [][NextFeed]_vars

\* ------------------------------------------------------------------------
\* The worker loop with the GUI thread's handlers running beside it
\* ------------------------------------------------------------------------
InitGui ==
    /\ EngineInit(DefaultConfig, 0)
    /\ NoiseIdle
    /\ IdentIdle
    /\ EncIdle
    /\ SlotIdle
    /\ HostIdle
    /\ BridgeInit(DefaultBridgeConfig)
    /\ \E bands \in BandsSet : RunInit(bands, 60000)

NextGui == WorkerStep \/ Stop \/ GuiStep

SpecGui == InitGui /\ [][NextGui]_vars

\* ========================================================================
\* Properties of the detection engine
\* ========================================================================
\* Number of events for key k in the detections list of the last call
DetCount(k) ==
    Cardinality({i \in 1..Len(last.detections) :
                    FreqKey(last.detections[i].freq_mhz) = k})

\* Keys the last call's frame touched
Touched == IF last.ran THEN {k \in DOMAIN hist : hist[k].touched = last.now}
           ELSE {}

\* The reaper's horizon for the last call, max(2 * hold_time, 10 s)
Horizon == IF 2 * last.hold > 10 * TicksPerSec THEN 2 * last.hold
           ELSE 10 * TicksPerSec

\* C1: a key seen at or above the effective threshold in every frame that
\* touched it over a span of at least hold_time has exactly one
\* DetectionEvent in each such frame from then on (hold_time = 0: in the
\* first above-threshold frame already), whatever the inter-frame times and
\* whichever other frames came in between.
C1_HeldBinDetected ==
    \A k \in Touched :
        (hist[k].obs = "above" /\ last.now - hist[k].runStart >= last.hold)
            => DetCount(k) = 1

\* C2: when a key that had dropped below the threshold is seen above it
\* again, first_seen is the time of the re-crossing frame, and with
\* hold_time > 0 the key has no DetectionEvent in any frame less than
\* hold_time after the re-crossing, whatever dwell the earlier run had.
C2_RecrossRestartsDwell ==
    \A k \in Touched :
        (hist[k].obs = "above" /\ hist[k].priorDwell # None) =>
            /\ hist[k].runStart = last.now =>
                  /\ k \in DOMAIN hold_state
                  /\ hold_state[k].first_seen = last.now
            /\ (last.hold > 0 /\ last.now - hist[k].runStart < last.hold)
                  => DetCount(k) = 0

\* A re-crossing frame of a key whose earlier run had already dwelt
\* hold_time > 0 or longer: no event for it.
C2_Witness ==
    \E k \in Touched :
        /\ hist[k].obs = "above"
        /\ hist[k].runStart = last.now
        /\ last.hold > 0
        /\ hist[k].priorDwell # None
        /\ hist[k].priorDwell >= last.hold
        /\ DetCount(k) = 0

\* C6: after the reaper step of a non-empty frame handled at time now no
\* entry of the hold-state map has a last_seen older than
\* now - max(2 * hold_time, 10 s), and a key no frame has touched for longer
\* than that is absent.
C6_NoStaleEntry ==
    last.ran =>
        /\ \A k \in DOMAIN hold_state :
              last.now - hold_state[k].last_seen <= Horizon
        /\ \A k \in DOMAIN hist :
              last.now - hist[k].touched > Horizon => k \notin DOMAIN hold_state

\* The last frame's reaper evicted an entry that had gone untouched for
\* longer than the horizon.
C6_Witness ==
    /\ last.ran
    /\ \E k \in last.reaped :
          /\ last.now - hist[k].touched > Horizon
          /\ k \notin DOMAIN hold_state

\* C7: the noise floor is absent until the first non-empty frame, is that
\* frame's trimmed median after it, and after every later non-empty frame
\* is 0.9 * previous floor + 0.1 * the frame's trimmed median; each
\* non-empty frame updates and publishes it exactly once and nothing else
\* changes it.
C7_NoiseFloorRule ==
    [][ /\ sig_noise = 0 => noise_floor = << >>
        /\ LET nonEmpty == nframes' = nframes + 1
                           /\ last'.frame.powers_dbm # << >>
           IN  /\ nonEmpty =>
                     /\ sig_noise' = sig_noise + 1
                     /\ noise_floor' # << >>
                     /\ IF noise_floor = << >>
                        THEN noise_floor'[1] = last'.median_noise
                        ELSE 10 * noise_floor'[1] =
                                 9 * noise_floor[1] + last'.median_noise
               /\ ~nonEmpty => UNCHANGED <<noise_floor, sig_noise>> ]_vars

\* The floor has been smoothed at least once by a sample that differs
\* from it.
C7_Witness ==
    /\ sig_noise >= 2
    /\ last.ran
    /\ last.prev_floor # << >>
    /\ last.prev_floor[1] # last.median_noise
    /\ noise_floor # last.prev_floor

\* C9: a fresh engine in noise-floor-relative mode with threshold offset 10,
\* hold time 0 and zero calibration that handles the one frame
\* low_hz = 900e6, bin_width_hz = 1e6, powers = 10 x -90 then -20 has noise
\* floor -90, used the effective threshold -80 and emitted exactly one
\* DetectionEvent: bin index 10, freq_mhz 910.5, power -20.
C9Frame == Frame("A", 900 * MHz, MHz, Rep(-90, 10) \o <<-20>>)

C9_Scenario ==
    /\ nframes = 1
    /\ last.frame = C9Frame
    /\ use_local_noise_floor
    /\ threshold_db = 10
    /\ min_hold_time_s = 0
    /\ cal_gain_db - cal_loss_db = 0
    /\ freq_ppm = 0

C9_EndToEnd ==
    C9_Scenario =>
        /\ noise_floor = <<-90 * NFScale>>
        /\ last.abs_threshold = -80 * NFScale
        /\ sig_det = 1
        /\ Len(last.detections) = 1
        /\ last.detections[1].freq_mhz = [hz |-> 910500000, frac |-> 0]
        /\ last.detections[1].freq_mhz_raw = [hz |-> 910500000, frac |-> 0]
        /\ last.detections[1].power_dbm = -20
        /\ last.detections[1].power_dbm_raw = C9Frame.powers_dbm[10 + 1]

C9_Witness == C9_Scenario /\ last.ran

\* C10: handling a frame with zero bins changes nothing in the engine: the
\* noise floor and every hold-state entry stay as they are (none created,
\* changed or evicted) and no noise-floor, log or detection event is emitted.
C10_EmptyFrameNoOp ==
    [][ (nframes' = nframes + 1 /\ last'.frame.powers_dbm = << >>)
            => UNCHANGED <<noise_floor, hold_state, sig_noise, sig_log,
                           sig_det>> ]_vars

\* An empty frame was the last one handled, at a time when the engine had a
\* noise floor and a hold-state entry old enough for the reaper to evict.
C10_Witness ==
    /\ nframes > 0
    /\ last.frame.powers_dbm = << >>
    /\ noise_floor # << >>
    /\ \E k \in DOMAIN hold_state :
          clock - hold_state[k].last_seen >
              CleanupLimit(min_hold_time_s)

\* ========================================================================
\* Properties of the noise estimate
\* ========================================================================
CountLess(s, v) == Cardinality({i \in 1..Len(s) : s[i] < v})
CountEq(s, v) == Cardinality({i \in 1..Len(s) : s[i] = v})
MinOf(a, b) == IF a <= b THEN a ELSE b

\* The j-th smallest member of s (1 <= j <= Len(s))
KthSmallest(s, j) ==
    CHOOSE v \in {s[i] : i \in 1..Len(s)} :
        CountLess(s, v) < j /\ j <= CountLess(s, v) + CountEq(s, v)

\* floor(0.8 * n)
Floor08(n) == CHOOSE q \in 0..n : 10 * q <= 8 * n /\ 8 * n < 10 * (q + 1)

\* C8: for a frame of n bins the noise candidates are the floor(0.8 n)
\* lowest calibrated powers when n > 10 and all n powers when 1 <= n <= 10,
\* and the per-frame noise sample is the median of the candidates.
C8_TrimmedMedian ==
    nz_result # << >> =>
        LET n    == Len(nz_powers)
            cand == nz_result[1].candidates
            m    == IF n > 10 THEN Floor08(n) ELSE n
        IN  /\ Len(cand) = m
            /\ \A v \in PowerLevels3 :
                  CountEq(cand, v) =
                      MinOf(CountEq(nz_powers, v),
                            Max(0, m - CountLess(nz_powers, v)))
            /\ nz_result[1].median2 =
                  KthSmallest(cand, (m + 1) \div 2)
                      + KthSmallest(cand, m \div 2 + 1)

\* A frame of more than 10 bins whose strongest fifth, had it been kept,
\* would have moved the median.
C8_Witness ==
    /\ nz_result # << >>
    /\ Len(nz_powers) > 10
    /\ Len(nz_result[1].candidates) < Len(nz_powers)
    /\ nz_result[1].median2 # Median2(Sorted(nz_powers))

\* ========================================================================
\* Properties of the identity resolver
\* ========================================================================
\* The whole number of kHz nearest to fq, stated by its distance: at most
\* half a kHz away, and the even one of two candidates.
NearestKHz(fq) ==
    LET lo   == fq.hz \div 1000
        \* |fq - 1000 k| <= 500 Hz, with fq = hz + frac/FracDen, 0 <= frac
        fits(k) == LET d == fq.hz - 1000 * k
                   IN  d >= -500 /\ (d < 500 \/ (d = 500 /\ fq.frac = 0))
        cands == {k \in {lo, lo + 1} : fits(k)}
    IN  IF Cardinality(cands) = 1 THEN CHOOSE k \in cands : TRUE
        ELSE CHOOSE k \in cands : k % 2 = 0

IdentCase ==
    /\ id_result # << >>
    /\ id_cfg.use_per_frequency_uid
    /\ Positive(id_freqs[1])
    /\ Positive(id_freqs[2])

\* C5 (as claimed): in per-frequency identity mode two detections with
\* freq_mhz > 0 get identical (callsign, uid) if their freq_mhz round to the
\* same 6-decimal value, and different ones if the rounded values differ.
C5_IdentityBySixDecimals ==
    IdentCase =>
        \A pair \in {id_result[1].bridge, id_result[1].direct} :
            (FreqKey(id_freqs[1]) = FreqKey(id_freqs[2])) <=> (pair[1] = pair[2])

\* C5 (amended): in per-frequency identity mode two detections with
\* freq_mhz > 0 get identical (callsign, uid) exactly when their freq_mhz
\* agree to the nearest kHz (the 3 decimals of the callsign), and in either
\* case callsign and uid are the same string.
C5_IdentityByThreeDecimals ==
    IdentCase =>
        \A pair \in {id_result[1].bridge, id_result[1].direct} :
            /\ (NearestKHz(id_freqs[1]) = NearestKHz(id_freqs[2]))
                  <=> (pair[1] = pair[2])
            /\ pair[1].callsign = pair[1].uid
            /\ pair[2].callsign = pair[2].uid

\* Two detections whose 6-decimal keys differ and that share one identity.
C5_Witness ==
    /\ IdentCase
    /\ FreqKey(id_freqs[1]) # FreqKey(id_freqs[2])
    /\ id_result[1].bridge[1] = id_result[1].bridge[2]
    /\ id_result[1].direct[1] = id_result[1].direct[2]

\* ========================================================================
\* Properties of the alert transport (under SpecBridge)
\* ========================================================================
\* A send call for a detection has just run, by either path
AlertCall ==
    /\ br_ncalls' = br_ncalls + 1
    /\ br_call'.path \in {"bridge", "direct"}

\* C3: for two alert send calls for detections with the same identity key
\* less than 1 second apart, by any path, exactly one datagram is
\* transmitted: once a datagram for a key has gone out, a send call for
\* that key less than a second later transmits nothing.
C3_OneDatagramPerSecond ==
    [][(/\ AlertCall
        /\ br_call'.key \in DOMAIN br_sent_at
        /\ clock - br_sent_at[br_call'.key] < OneSecond)
       => ~br_call'.sent]_vars

\* The failures that stop a datagram: no socket, or sendto fails
Fatal == {"socket", "sendto"}

C11_NonPositiveWidthDropped ==
    [][ (nframes' = nframes + 1 /\ last'.frame.bin_width_hz <= 0)
            => UNCHANGED <<noise_floor, hold_state, sig_det>> ]_vars

\* ========================================================================
\* Properties of the transport's socket (under SpecBridge)
\* ========================================================================
\* A send through the bridge (a detection or the test message) has just
\* attempted to transmit
BridgeAttempt ==
    /\ br_ncalls' = br_ncalls + 1
    /\ br_call'.path \in {"bridge", "test"}
    /\ br_call'.outcome = "attempted"

\* C17: after a send attempt that fails (socket creation or sendto), the
\* cached socket is cleared, so the next attempt creates a new one.
C17_FailedSendResetsSocket ==
    [][ (BridgeAttempt /\ br_call'.failed \cap Fatal # {})
            => br_sock' = << >> ]_vars

\* C19: after every apply_config call the previously cached socket is
\* closed and cleared and the cached auto-detected IP is cleared, so the
\* cached socket, and the socket of every datagram the bridge sends, was
\* created under the transport configuration in force.
C19_SocketOfCurrentConfig ==
    /\ br_call.path = "apply_config"
          => (br_sock = << >> /\ br_ip_cache = "")
    /\ br_sock # << >> => br_sock[1].made_for = TransportOf(br_cfg)
    /\ (br_call.path \in {"bridge", "test"} /\ br_call.sent)
          => br_call.datagram[1].sock.made_for = TransportOf(br_cfg)

\* C20: every socket the transport caches and sends on has, when the
\* configured host is a multicast address, the configured multicast TTL
\* applied and, when a bind or auto-detected local IP is known, the outbound
\* interface set to that IP; when the host is not multicast neither option
\* is set and no local IP was resolved for it.
C20_MulticastOptionsApplied ==
    br_sock # << >> =>
        LET sock == br_sock[1]
        IN  IF IsMulticastHost(br_cfg.host)
            THEN /\ sock.ttl = br_cfg.multicast_ttl
                 /\ sock.local_ip # "" => sock.mif = sock.local_ip
            ELSE /\ sock.ttl = None
                 /\ sock.mif = ""
                 /\ ~sock.resolved

\* ========================================================================
\* Properties of the worker loop (under SpecRun / SpecRunFair)
\* ========================================================================
\* The worker is about to evaluate self._running: at the top of a cycle,
\* before a band, before handling a frame, after the back-off sleep, after
\* the band loop
AtCheck ==
    \/ rw_pc \in {"while", "frame", "backoff", "bands-done"}
    \/ rw_pc = "band" /\ rw_band <= Len(rw_bands)

\* C12: once stop() has cleared the flag, the worker's step at each of its
\* checks observes it; after the first such check the worker launches no
\* scanner and handles no frame; and run() eventually returns, having
\* emitted finished once.
C12_StopIsObserved ==
    /\ [][(~rw_running /\ AtCheck)
              => (rw_seen_stop' /\ rw_ev' = "saw-stop")]_vars
    /\ [][rw_seen_stop
              => rw_ev' \notin {"launch", "launch-failed", "handle"}]_vars
    /\ (~rw_running) ~> (rw_pc = "done" /\ rw_finished = 1)

\* stop() arrived while a frame was waiting to be handled: the worker left
\* the frame unhandled, closed the scanner and returned.
C12_Witness ==
    /\ rw_pc = "done"
    /\ rw_seen_stop
    /\ rw_iter.ended = "abandoned"
    /\ rw_ev = "finished"
    /\ rw_finished = 1

\* The worker is inside a time.sleep call
Sleeping == rw_pc \in {"backoff", "idle-sleep", "interval-sleep"}

\* C13: no single uninterrupted sleep in run() lasts longer than about one
\* second, whatever the inter-cycle delay, so a stop() is observed within
\* about a second of waiting.
C13_SleepsAtMostOneSecond ==
    Sleeping => rw_sleep <= OneSecond

\* C14: on every way an iter_sweep_frames call ends after its subprocess was
\* started (output exhausted, no data, generator abandoned), the subprocess
\* is no longer running: if it was still alive it got terminate, and kill
\* only after a wait of one second.
C14_ScannerNotLeftRunning ==
    (rw_iter.launch = "ok" /\ rw_iter.ended # "")
        => /\ rw_proc.state = "exited"
           /\ rw_proc.signals \in {<< >>, <<"terminate">>,
                                   <<"terminate", "kill">>}
           /\ rw_proc.signals = <<"terminate", "kill">>
                 => rw_proc.waited = OneSecond

\* The worker abandoned the generator on stop and the scanner ignored
\* terminate.
C14_Witness ==
    /\ rw_iter.launch = "ok"
    /\ rw_iter.ended = "abandoned"
    /\ rw_proc.signals = <<"terminate", "kill">>
    /\ rw_proc.state = "exited"

\* C15: iter_sweep_frames raises SweepBackendError exactly when the scanner
\* executable is not found or its output ends without one parsed data line
\* (blank, comment and unparsable lines do not count); once a frame was
\* yielded, the end of the output ends the iteration without error.
C15_ErrorExactlyWithoutData ==
    rw_iter.ended # ""
        => /\ rw_iter.ended = "error"
                 <=> \/ rw_iter.launch = "not_found"
                     \/ /\ rw_iter.launch = "ok"
                        /\ rw_iter.eof
                        /\ rw_iter.data_lines = 0
           /\ (rw_iter.eof /\ rw_iter.data_lines > 0)
                 => rw_iter.ended = "exhausted"

\* The scanner wrote lines, none of them data, and ended.
C15_Witness ==
    /\ rw_iter.ended = "error"
    /\ rw_iter.launch = "ok"
    /\ rw_iter.eof
    /\ rw_iter.lines > 1
    /\ rw_iter.data_lines = 0

\* C16: a scanner invocation that fails with SweepBackendError is reported
\* as a log event and followed by a back-off sleep of one second before any
\* further invocation; right after it the worker re-checks the stop flag
\* and otherwise goes on with the next band.
C16_BackoffAfterError ==
    /\ [][((rw_ev' = "no-data" \/ (rw_ev' = "launch-failed"
                                     /\ rw_iter'.launch = "not_found"))
             /\ rw_pc \in {"launch", "read"})
              => rw_pc' = "catch"]_vars
    /\ [][(rw_pc = "catch" /\ rw_pc' # "catch")
              => (/\ rw_ev' = "error-logged"
                  /\ rw_pc' = "backoff"
                  /\ rw_sleep' = OneSecond)]_vars
    /\ [][(rw_pc = "backoff" /\ rw_pc' # "backoff")
              => IF rw_running
                 THEN rw_pc' = "band" /\ rw_band' = rw_band + 1
                 ELSE rw_pc' = "bands-done" /\ rw_seen_stop']_vars
    /\ [][(rw_pc = "launch" /\ rw_pc' # "launch")
              => (rw_iter.ended = "error" => rw_iter.backed_off)]_vars

\* After a failed invocation and its back-off the worker, not stopped, is
\* at the next band.
C16_Witness ==
    /\ rw_iter.ended = "error"
    /\ rw_iter.backed_off
    /\ rw_ev = "woke"
    /\ rw_pc = "band"
    /\ rw_running

\* ========================================================================
\* Properties of the threads (under SpecGui)
\* ========================================================================
\* The worker is running on its thread
WorkerRunning == rw_pc \notin {"idle", "done"}

\* C18: while the worker runs on its thread, no field of the worker
\* (threshold, threshold mode, calibration gain and loss, ppm, noise floor,
\* hold-state map) is written by a step of the GUI thread.
C18_NoDirectAccessFromGui ==
    [][(WorkerRunning /\ rw_ev' = "gui-write")
          => UNCHANGED <<threshold_db, use_local_noise_floor, cal_gain_db,
                         cal_loss_db, freq_ppm, noise_floor, hold_state>>]_vars


\* ========================================================================
\* Properties of the threshold, the hold-state bookkeeping and the summary
\* ========================================================================
\* The key of bin idx (from 0) of frame f under the current correction
BinKey(f, idx) ==
    FreqKey(CalFreq(Center2(f.low_hz, idx, f.bin_width_hz), freq_ppm))

\* The calibrated power of bin idx: raw + gain - loss
CalPower(f, idx) == f.powers_dbm[idx + 1] + cal_gain_db - cal_loss_db

\* The threshold the specification prescribes, from the engine's state
\* after the frame, in NFScale units
EffectiveThreshold ==
    IF use_local_noise_floor THEN noise_floor[1] + threshold_db * NFScale
    ELSE threshold_db * NFScale

BinsOf(f) == 0..(Len(f.powers_dbm) - 1)

\* C21: the effective threshold of a frame is the noise floor as updated by
\* that frame plus the threshold setting in noise-floor-relative mode and
\* the threshold setting alone in absolute mode; a bin counts as above
\* exactly when raw power + gain - loss is at or above it, and the
\* hold-state entry of the bin's key says so after the frame.
C21_EffectiveThreshold ==
    last.ran =>
        /\ last.abs_threshold = EffectiveThreshold
        /\ \A idx \in BinsOf(last.frame) :
              LET k == BinKey(last.frame, idx)
              IN  IF CalPower(last.frame, idx) * NFScale >= EffectiveThreshold
                  THEN /\ k \in DOMAIN hold_state
                       /\ hold_state[k].above
                       /\ hold_state[k].last_seen = last.now
                  ELSE k \notin DOMAIN hold_state \/ ~hold_state[k].above

\* A frame in relative mode that moved the noise floor and had a bin on
\* each side of the new threshold.
C21_Witness ==
    /\ last.ran
    /\ use_local_noise_floor
    /\ last.prev_floor # << >>
    /\ last.prev_floor # noise_floor
    /\ \E i, j \in BinsOf(last.frame) :
          /\ CalPower(last.frame, i) * NFScale >= EffectiveThreshold
          /\ CalPower(last.frame, j) * NFScale < EffectiveThreshold
          /\ BinKey(last.frame, i) \in DOMAIN hold_state


\* ========================================================================
\* Properties of the alert encoding
\* ========================================================================
\* The callsign the specification prescribes for a positive frequency: the
\* prefix, the frequency in MHz to the nearest kHz with 3 decimals, "MHz"
PerFrequencyName(cfg, fq) ==
    LET k == NearestKHz(fq)
    IN  cfg.callsign_prefix \o IntStr(k \div 1000) \o "."
            \o Padded(k % 1000, 3) \o "MHz"

\* C22: the resolver returns the per-frequency pair (callsign = uid =
\* prefix + freq_mhz with 3 decimals + "MHz") exactly when per-frequency
\* mode is on and the frequency is > 0, the configured static pair in every
\* other case, and the rate-limit key of send_detection is the resolved uid.
C22_ResolvedIdentity ==
    id_result # << >> =>
        \A i \in 1..2 :
            LET fq   == id_freqs[i]
                pair == id_result[1].bridge[i]
            IN  /\ IF id_cfg.use_per_frequency_uid /\ Positive(fq)
                   THEN /\ pair.callsign = PerFrequencyName(id_cfg, fq)
                        /\ pair.uid = pair.callsign
                   ELSE /\ pair.callsign = id_cfg.static_callsign
                        /\ pair.uid = id_cfg.static_uid
                /\ id_result[1].key[i] = pair.uid

\* Per-frequency mode resolved a frequency of 0 to the static pair and a
\* positive one to its per-frequency pair.
C22_Witness ==
    /\ id_result # << >>
    /\ id_cfg.use_per_frequency_uid
    /\ ~Positive(id_freqs[1])
    /\ Positive(id_freqs[2])
    /\ id_result[1].bridge[1].uid = id_cfg.static_uid
    /\ id_result[1].bridge[2].uid = PerFrequencyName(id_cfg, id_freqs[2])
    /\ id_result[1].key[1] = id_cfg.static_uid


\* The parts list just composed has a part with this label
HasPart(field) ==
    \E i \in 1..Len(rm_out[1].parts) : rm_out[1].parts[i].field = field

\* C23: in the remarks of an encoded detection "Cal offset:" is present
\* exactly when |cal_offset_db| >= 0.05, "Raw:" exactly when
\* |power_dbm_raw - power_dbm| >= 0.05 and "PPM:" exactly when
\* |freq_ppm| >= 0.05; so power_dbm_raw = power_dbm with cal_offset_db = 0
\* gives neither "Raw:" nor "Cal offset:", and cal_offset_db = 0.1 gives
\* "Cal offset:".
C23_OptionalRemarks ==
    (rm_out # << >> /\ rm_out[1].encoded) =>
        /\ HasPart("Cal offset") <=>
              (rm_det.cal_offset_db >= 5 \/ rm_det.cal_offset_db <= -5)
        /\ HasPart("Raw") <=>
              (rm_det.power_dbm_raw - rm_det.power_dbm >= 5
                  \/ rm_det.power_dbm - rm_det.power_dbm_raw >= 5)
        /\ HasPart("PPM") <=> (rm_det.freq_ppm >= 5 \/ rm_det.freq_ppm <= -5)
        /\ (rm_det.power_dbm_raw = rm_det.power_dbm
               /\ rm_det.cal_offset_db = 0)
              => (~HasPart("Raw") /\ ~HasPart("Cal offset"))
        /\ rm_det.cal_offset_db = 10 => HasPart("Cal offset")

\* A detection encoded with an offset of exactly 0.05 dB (shown), a raw
\* power 0.04 dB away (not shown) and a ppm of exactly -0.05 (shown).
C23_Witness ==
    /\ rm_out # << >>
    /\ rm_out[1].encoded
    /\ rm_det.cal_offset_db = 5
    /\ rm_det.power_dbm_raw - rm_det.power_dbm = -4
    /\ rm_det.freq_ppm = -5
    /\ HasPart("Cal offset")
    /\ ~HasPart("Raw")
    /\ HasPart("PPM")


\* ------------------------------------------------------------------------
\* Reading an event document the way an XML parser does
\* ------------------------------------------------------------------------
\* Runs that open an element and its first attribute, open an element
\* without attributes, or close one; runs that begin a further attribute
OpenAttrRuns == {"event version=", "point lat=", "contact callsign=",
                 "__group name="}
OpenBareRuns == {"detail", "remarks"}
CloseRuns == {"/remarks", "/detail", "/event"}
AttrIntroRuns == {" uid=", " type=", " how=", " time=", " start=", " stale=",
                  " lon=", " hae=", " ce=", " le=", " role=", " y="}

ElemOf(run) ==
    CASE run = "event version=" -> "event"
      [] run = "point lat=" -> "point"
      [] run = "contact callsign=" -> "contact"
      [] run = "__group name=" -> "__group"
      [] run = "detail" -> "detail"
      [] run = "remarks" -> "remarks"
      [] run = "/remarks" -> "remarks"
      [] run = "/detail" -> "detail"
      [] run = "/event" -> "event"

EntityRuns == {"amp;", "lt;", "gt;", "quot;"}
EntityChar(run) ==
    CASE run = "amp;" -> AMP [] run = "lt;" -> LT [] run = "gt;" -> GT
      [] run = "quot;" -> QUOT

ScanStart == [mode |-> "content", ok |-> TRUE, stack |-> << >>,
              rootDone |-> FALSE, intro |-> "", cur |-> << >>,
              attrs |-> << >>, remarks |-> << >>]

Fail(st) == [st EXCEPT !.ok = FALSE]

Pop(st) ==
    LET rest == SubSeq(st.stack, 1, Len(st.stack) - 1)
    IN  [st EXCEPT !.stack = rest, !.rootDone = (rest = << >>)]

InRemarks(st) == st.stack # << >> /\ st.stack[Len(st.stack)] = "remarks"

\* The parser's state after one more token
ScanStep(st, tok) ==
    IF ~st.ok THEN st
    ELSE CASE st.mode = "content" ->
              IF tok = LT THEN [st EXCEPT !.mode = "tagname"]
              ELSE IF tok = AMP THEN [st EXCEPT !.mode = "ent_content"]
              ELSE IF st.stack = << >>
                   THEN (IF tok = " " THEN st ELSE Fail(st))
              ELSE IF InRemarks(st)
                   THEN [st EXCEPT !.remarks = Append(@, tok)]
              ELSE st
           [] st.mode = "tagname" ->
              IF tok \in OpenAttrRuns \cup OpenBareRuns
              THEN IF st.rootDone THEN Fail(st)
                   ELSE [st EXCEPT !.stack = Append(@, ElemOf(tok)),
                                   !.intro = tok,
                                   !.mode = IF tok \in OpenAttrRuns
                                            THEN "wantquote" ELSE "wantgt"]
              ELSE IF tok \in CloseRuns
              THEN IF st.stack # << >>
                      /\ st.stack[Len(st.stack)] = ElemOf(tok)
                   THEN [Pop(st) EXCEPT !.mode = "wantgt"]
                   ELSE Fail(st)
              ELSE Fail(st)
           [] st.mode = "wantquote" ->
              IF tok = QUOT THEN [st EXCEPT !.mode = "value", !.cur = << >>]
              ELSE Fail(st)
           [] st.mode = "value" ->
              IF tok = QUOT
              THEN [st EXCEPT !.mode = "aftervalue",
                              !.attrs = Append(@, [name |-> st.intro,
                                                   value |-> st.cur])]
              ELSE IF tok = LT THEN Fail(st)
              ELSE IF tok = AMP THEN [st EXCEPT !.mode = "ent_value"]
              ELSE [st EXCEPT !.cur = Append(@, tok)]
           [] st.mode = "ent_value" ->
              IF tok \in EntityRuns
              THEN [st EXCEPT !.mode = "value",
                              !.cur = Append(@, EntityChar(tok))]
              ELSE Fail(st)
           [] st.mode = "ent_content" ->
              IF tok \in EntityRuns
              THEN [st EXCEPT !.mode = "content",
                              !.remarks = IF InRemarks(st)
                                          THEN Append(@, EntityChar(tok))
                                          ELSE @]
              ELSE Fail(st)
           [] st.mode = "aftervalue" ->
              IF tok \in AttrIntroRuns
              THEN [st EXCEPT !.mode = "wantquote", !.intro = tok]
              ELSE IF tok = " /" THEN [st EXCEPT !.mode = "selfclose"]
              ELSE IF tok = GT THEN [st EXCEPT !.mode = "content"]
              ELSE Fail(st)
           [] st.mode = "selfclose" ->
              IF tok = GT THEN [Pop(st) EXCEPT !.mode = "content"]
              ELSE Fail(st)
           [] st.mode = "wantgt" ->
              IF tok = GT THEN [st EXCEPT !.mode = "content"] ELSE Fail(st)

RECURSIVE ScanFrom(_, _, _)
ScanFrom(doc, i, st) ==
    IF ~st.ok \/ i > Len(doc) THEN st
    ELSE ScanFrom(doc, i + 1, ScanStep(st, doc[i]))

Scan(doc) == ScanFrom(doc, 1, ScanStart)

\* One root element, everything closed, no token out of place
WellFormed(r) ==
    r.ok /\ r.mode = "content" /\ r.stack = << >> /\ r.rootDone

\* The values the parser read for the attribute begun by intro
AttrValues(r, intro) ==
    {r.attrs[i].value : i \in {j \in 1..Len(r.attrs) : r.attrs[j].name = intro}}

\* C24: for every uid, callsign, type, group name and group role, with the
\* characters & < > and the double quote among them, the encoded event is
\* a well-formed XML document in which each attribute has the value it was
\* given (no character of a value ends the attribute or opens markup) and
\* the remarks element has the remarks text as its content.
C24_WellFormedEvent ==
    cot_out # << >> =>
        LET r == Scan(cot_out[1].xml)
            bridge == cot_out[1].path = "bridge"
        IN  /\ WellFormed(r)
            /\ Len(r.attrs) = 15
            /\ AttrValues(r, " uid=") = {cot_in.uid}
            /\ AttrValues(r, "contact callsign=") = {cot_in.callsign}
            /\ bridge =>
                  /\ AttrValues(r, " type=") = {cot_in.cot_type}
                  /\ AttrValues(r, "__group name=") = {cot_in.group_name}
                  /\ AttrValues(r, " role=") = {cot_in.group_role}
            /\ r.remarks = cot_in.remarks


\* ========================================================================
\* Properties of the worker's signals and the main window's slots
\* ========================================================================
\* C25: a DetectionEvent is never modified after the engine creates it:
\* whatever happens later, a later detection for the same frequency key
\* arriving at the detections table included, every event ever emitted
\* still has the field values it was created with.
C25_DetectionNeverModified ==
    \A id \in 1..Len(det_made) : det_heap[id] = det_made[id]


\* A detections_found emission is still waiting for its slot
AlertsPending == \E i \in 1..Len(gq) : gq[i].kind = "dets"

\* The alerts of a frame carry the noise floor the engine had after that
\* frame.
AlertFloorOfItsFrame ==
    [][ gui_alert' # gui_alert
            => gui_alert'.noise_floor = <<gui_alert'.emitted_floor>> ]_vars

\* C28: frames are processed one at a time through alerts: when the next
\* frame is taken from the scanner no alert of an earlier frame is still
\* to be sent, and each alert's noise-floor remark uses the noise floor as
\* it was after the alert's own frame.
C28_OneFrameAtATime ==
    [][ /\ nframes' = nframes + 1 => ~AlertsPending
        /\ gui_alert' # gui_alert
              => gui_alert'.noise_floor = <<gui_alert'.emitted_floor>> ]_vars


\* ========================================================================
\* Further properties of the alert transport (under SpecBridge)
\* ========================================================================
\* C26: between two consecutive apply_config calls the local-IP probe runs
\* at most once, however many datagrams are sent or fail in between,
\* whether or not the probe finds an address.
C26_ProbeOncePerConfig == br_probes <= 1


\* ========================================================================
\* Further properties of the detection engine (under Spec)
\* ========================================================================
\* The keys of the bins of frame f
KeysOf(f) == {BinKey(f, idx) : idx \in BinsOf(f)}

\* C27: for every key present in the hold-state map, every frame that
\* contains a bin with that key sets the entry's last_seen to the frame's
\* time, whether the bin is above or below the threshold, so the entry
\* outlives that frame's cleanup.
C27_TouchRefreshesLastSeen ==
    [][ (nframes' = nframes + 1 /\ last'.ran) =>
            \A k \in DOMAIN hold_state \cap KeysOf(last'.frame) :
                /\ k \in DOMAIN hold_state'
                /\ hold_state'[k].last_seen = last'.now ]_vars


\* The latest of the two times from which on key k has both had its entry
\* and been seen above the threshold in every frame touching it; k was
\* observed above at that time.
DwellStart(k) == Max(hist[k].born, hist[k].runStart)

\* C29: with hold_time H > 0 every DetectionEvent for key k at time t is
\* backed by continuous dwell: k was observed at or above the threshold at
\* some time <= t - H, its entry has existed ever since and no frame in
\* between observed k below the threshold.
C29_DetectionBackedByDwell ==
    (last.ran /\ last.hold > 0) =>
        \A i \in 1..Len(last.detections) :
            LET k == FreqKey(last.detections[i].freq_mhz)
            IN  /\ k \in DOMAIN hist
                /\ hist[k].obs = "above"
                /\ hist[k].born # None
                /\ hist[k].runStart # None
                /\ DwellStart(k) <= last.detections[i].timestamp - last.hold
                /\ k \in DOMAIN hold_state

\* A detection under a hold time > 0 for a key whose entry was evicted and
\* created again during its run of above observations: the dwell counts
\* from the new entry.
C29_Witness ==
    /\ last.ran
    /\ last.hold > 0
    /\ \E i \in 1..Len(last.detections) :
          LET k == FreqKey(last.detections[i].freq_mhz)
          IN  /\ hist[k].born > hist[k].runStart
              /\ hist[k].born <= last.now - last.hold


\* The bins of f whose calibrated power no bin of f exceeds
TopBins(f) ==
    {i \in BinsOf(f) : \A j \in BinsOf(f) : CalPower(f, j) <= CalPower(f, i)}

FirstTopBin(f) == CHOOSE i \in TopBins(f) : \A j \in TopBins(f) : i <= j

\* C30: for every non-empty frame the summary maximum is the highest
\* calibrated power of the frame with the calibrated frequency of the
\* lowest-index bin that has it, whether or not any bin is a detection;
\* the summary line is emitted for every such frame when
\* only_above_threshold is off, and exactly when the maximum is at or
\* above the effective threshold when it is on.
C30_SummaryMaximum ==
    [][ (nframes' = nframes + 1 /\ last'.ran) =>
            LET f   == last'.frame
                top == FirstTopBin(f)
                due == ~only_above_threshold
                       \/ CalPower(f, top) * NFScale >= EffectiveThreshold'
            IN  /\ last'.max # << >>
                /\ last'.max[1].power = CalPower(f, top)
                /\ last'.max[1].freq =
                       CalFreq(Center2(f.low_hz, top, f.bin_width_hz), freq_ppm)
                /\ sig_log' = sig_log + (IF due THEN 1 ELSE 0)
                /\ last'.logged = due ]_vars

\* A frame without any detection in which several bins share the highest
\* power, handled with only_above_threshold on: a maximum, no summary line.
C30_Witness ==
    /\ last.ran
    /\ last.detections = << >>
    /\ Cardinality(TopBins(last.frame)) > 1
    /\ only_above_threshold
    /\ last.max # << >>
    /\ last.max[1].freq =
           CalFreq(Center2(last.frame.low_hz, 0, last.frame.bin_width_hz),
                   freq_ppm)
    /\ ~last.logged

\* ------------------------------------------------------------------------
\* 4.11  The sweep cycle seen from the detection engine (src/main.py:247-299
\* and 314-416).  Band 1 is band "B", band 2 is band "A"; every invocation of
\* the scanner delivers the band's frame of two bins (median -60 dBm), and
\* in band "A" the bin of key 910.5 MHz is always loud.  The engine only reads differences of times, so
\* after every call all stored times are moved back by the time that has
\* passed and the clock reads the same again: executions that run for ever
\* stay within finitely many states.
\* ------------------------------------------------------------------------
\* The frame one sweep of band i delivers
CycleFrame(i) ==
    IF i = 1 THEN Frame("B", LowB, 5000, <<-60, -60>>)
    ELSE Frame("A", LowA + 9 * MHz, MHz, <<-100, -20>>)

\* self.bands with band "A" enabled
CycleBands == {<<TRUE, TRUE>>, <<FALSE, TRUE>>}

\* "for band in self.bands: if not band.get('enabled'): continue"
\* (src/main.py:251-255): the enabled band after band i, 0 when the loop ends
NextEnabled(bands, i) ==
    IF \E j \in (i + 1)..Len(bands) : bands[j]
    THEN CHOOSE j \in (i + 1)..Len(bands) :
            bands[j] /\ \A m \in (i + 1)..(j - 1) : ~bands[m]
    ELSE 0

\* "remaining = self.interval_ms - elapsed_ms" (src/main.py:295-299)
Remaining(interval_ms, elapsed) ==
    IF interval_ms > 0 /\ Ticks(interval_ms) - elapsed > 0
    THEN Ticks(interval_ms) - elapsed ELSE 0

\* A stored time t after d ticks have passed; a dwell longer than the
\* longest cleanup limit is remembered as that limit (it still satisfies
\* every hold time of HoldSet).
Earlier(t, d, now) ==
    IF t = None THEN None
    ELSE Max(t - d, now - d - CleanupLimit(6 * TicksPerSec))

Rebase(hs, d, now) ==
    [k \in DOMAIN hs |->
        [hs[k] EXCEPT !.first_seen = Earlier(@, d, now),
                      !.last_seen = Earlier(@, d, now)]]

\* The history of observations, moved back likewise
RebaseHist(h, d, now) ==
    [k \in DOMAIN h |->
        [h[k] EXCEPT !.runStart = Earlier(@, d, now),
                     !.touched = Earlier(@, d, now),
                     !.born = Earlier(@, d, now)]]

\* One sweep of band rw_band: the scanner takes d ticks to deliver the
\* frame, _handle_frame handles it, and after the last enabled band the
\* worker sleeps for the rest of the interval (rw_sleep, added to the time
\* of the next frame).
SweepBand(d) ==
    /\ rw_pc = "cycle"
    /\ LET total == rw_sleep + d
           now   == clock + total
           r     == FrameResult(CycleFrame(rw_band), now)
           nxt   == NextEnabled(rw_bands, rw_band)
           spent == rw_elapsed + d
       IN  /\ noise_floor' = r.noise_floor
           /\ hold_state' = Rebase(r.hold_state, total, now)
           /\ sig_det' = IF sig_det + r.det_emits > 0 THEN 1 ELSE 0
           /\ nframes' = (nframes + 1) % 2
           /\ hist' = RebaseHist(r.hist, total, now)
           /\ rw_band' = IF nxt = 0 THEN NextEnabled(rw_bands, 0) ELSE nxt
           /\ rw_elapsed' = IF nxt = 0 THEN 0 ELSE spent
           /\ rw_sleep' = IF nxt = 0 THEN Remaining(rw_interval_ms, spent)
                          ELSE 0
    /\ UNCHANGED <<clock, threshold_db, use_local_noise_floor,
                   only_above_threshold, min_hold_time_s, cal_gain_db,
                   cal_loss_db, freq_ppm, sig_noise, sig_log, last,
                   rw_pc, rw_running, rw_bands, rw_interval_ms,
                   rw_any_band, rw_proc, rw_iter, rw_ev, rw_seen_stop,
                   rw_finished>>
    /\ UNCHANGED <<noiseVars, identVars, encVars, slotVars, hostVars, bridgeVars>>

InitCycle ==
    /\ \E cfg \in ConfigSet, hold \in HoldSet \ {0} : EngineInit(cfg, hold)
    /\ NoiseIdle
    /\ IdentIdle
    /\ EncIdle
    /\ SlotIdle
    /\ HostIdle
    /\ BridgeInit(DefaultBridgeConfig)
    /\ \E bands \in CycleBands, interval_ms \in IntervalSet :
          /\ rw_pc = "cycle"
          /\ rw_running = TRUE
          /\ rw_bands = bands
          /\ rw_interval_ms = interval_ms
          /\ rw_band = NextEnabled(bands, 0)
          /\ rw_any_band = TRUE
          /\ rw_elapsed = 0
          /\ rw_sleep = 0
          /\ rw_proc = NoProc
          /\ rw_iter = NoIter
          /\ rw_ev = << >>
          /\ rw_seen_stop = FALSE
          /\ rw_finished = 0

NextCycle == \E d \in DelaySet : SweepBand(d)

\* A further frame is handled: in this specification nframes is the parity
\* of the number of frames handled, and sig_det whether detections_found
\* has been emitted.
FrameHandled == nframes' = (nframes + 1) % 2

\* The worker is never stopped and the scanner always delivers, so a sweep
\* is always possible and every sweep handles a frame: weak fairness of the
\* handling of a further frame.
SpecCycle == InitCycle /\ [][NextCycle]_vars /\ WF_nframes(FrameHandled)

\* C31: with hold_time > 0, band "A" enabled and key 910.5 MHz at or above
\* the threshold in every frame of band "A" (one per sweep cycle), a
\* detections_found signal (only key 910.5 MHz can be in it) is eventually
\* emitted, whatever the number of enabled bands and the interval.
C31_EventuallyDetected == <>(sig_det > 0)

\* C32: every hold-state entry is well formed: last_seen is set; an entry
\* that is above has first_seen set and first_seen <= last_seen; an entry
\* that is below has no first_seen; and the last_seen of an entry that
\* stays in the map never decreases.
WellFormedEntry(e) ==
    /\ e.last_seen # None
    /\ e.above => (e.first_seen # None /\ e.first_seen <= e.last_seen)
    /\ ~e.above => e.first_seen = None

C32_HoldEntriesWellFormed ==
    /\ [](\A k \in DOMAIN hold_state : WellFormedEntry(hold_state[k]))
    /\ [][\A k \in DOMAIN hold_state \cap DOMAIN hold_state' :
              hold_state'[k].last_seen >= hold_state[k].last_seen]_vars

\* An entry that has dwelt beside an entry that fell below the threshold
C32_Witness ==
    /\ \E k \in DOMAIN hold_state :
          hold_state[k].above /\ hold_state[k].first_seen < hold_state[k].last_seen
    /\ \E k \in DOMAIN hold_state : ~hold_state[k].above

\* run() has been told to stop, or an exception no handler of run() catches
\* has been raised by the launch of the scanner or by _handle_frame
ExitTaken ==
    \/ ~rw_running
    \/ rw_iter.ended = "os_error"
    \/ rw_ev = "handler-raised"

\* C33: every execution of run() emits finished exactly once, as its last
\* action, on every exit path: finished is emitted only by the step that
\* ends run(), never twice, nothing of the worker changes afterwards, and
\* a stop request or an unexpected exception raised while launching the
\* scanner or handling a frame leads to the emission.
C33_FinishedExactlyOnce ==
    /\ [](rw_finished = IF rw_pc = "done" THEN 1 ELSE 0)
    /\ [][rw_pc = "done"
              => UNCHANGED <<rw_pc, rw_finished, rw_ev, rw_proc, rw_iter,
                             rw_band, rw_sleep, rw_elapsed>>]_vars
    /\ ExitTaken ~> (rw_pc = "done" /\ rw_finished = 1)

\* run() ended by an exception of _handle_frame, without a stop request
C33_Witness ==
    /\ rw_pc = "done"
    /\ rw_finished = 1
    /\ rw_running
    /\ rw_iter.launch = "ok"
    /\ rw_iter.ended = "abandoned"

\* ------------------------------------------------------------------------
\* 4.12  MainWindow: starting and stopping the worker
\* (src/main.py:1032-1160).  The worker thread runs the steps of 4.6; the
\* finished signal reaches on_worker_finished through the GUI thread's
\* event queue.  set_bias_tee(False, ...) is counted as an off command
\* whether or not hackrf_biast is installed.
\* ------------------------------------------------------------------------
MaxStarts == 2

\* The band check boxes when Start is pressed: two bands, one, none
StartBandsSet == {<<TRUE, TRUE>>, <<FALSE, TRUE>>, <<FALSE, FALSE>>}

\* Variant: a worker that was told to stop no longer counts.
HasWorker_Running(worker, running) == worker /\ running

\* "if self.worker is not None: return" (src/main.py:1033-1034)
HasWorker(worker, running) == worker

\* No worker thread is executing run()
NoRun == rw_pc \in {"none", "done"}

\* start_watchdog: the Start button with the band boxes as in bands, the
\* Bias-T box as in power; biast tells whether hackrf_biast succeeds.
StartWatchdog(bands, power, biast) ==
    /\ lw_starts < MaxStarts
    /\ IF HasWorker(lw_worker, rw_running)
       THEN /\ lw_ev' = [call |-> "start_watchdog", outcome |-> "ignored",
                         offs |-> 0]
            /\ UNCHANGED <<lw_worker, lw_requested, lw_engaged, lw_power,
                           lw_starts, lw_stopped, runVars>>
       ELSE IF \A i \in DOMAIN bands : ~bands[i]
       THEN /\ lw_ev' = [call |-> "start_watchdog", outcome |-> "no-bands",
                         offs |-> 0]
            /\ UNCHANGED <<lw_worker, lw_requested, lw_engaged, lw_power,
                           lw_starts, lw_stopped, runVars>>
       ELSE /\ lw_requested' = power
            /\ lw_engaged' = (power /\ biast)
            /\ lw_power' = power
            /\ lw_worker' = TRUE
            /\ lw_starts' = lw_starts + 1
            /\ lw_stopped' = FALSE
            /\ lw_ev' = [call |-> "start_watchdog", outcome |-> "started",
                         offs |-> 0]
            /\ rw_pc' = "idle"
            /\ rw_running' = TRUE
            /\ rw_bands' = bands
            /\ rw_band' = 1
            /\ rw_any_band' = FALSE
            /\ rw_elapsed' = 0
            /\ rw_sleep' = 0
            /\ rw_proc' = NoProc
            /\ rw_iter' = NoIter
            /\ rw_ev' = ""
            /\ rw_seen_stop' = FALSE
            /\ rw_finished' = 0
            /\ UNCHANGED rw_interval_ms
    /\ UNCHANGED <<clock, engineVars, noiseVars, identVars, encVars, slotVars,
                   hf, cli, ds_bands, ds_call, bridgeVars>>

\* stop_watchdog: the Stop button (src/main.py:1130-1144)
StopWatchdog ==
    /\ IF lw_worker
       THEN /\ rw_running' = FALSE
            /\ rw_ev' = "stop"
       ELSE UNCHANGED <<rw_running, rw_ev>>
    /\ IF lw_requested
       THEN /\ lw_engaged' = FALSE
            /\ lw_requested' = FALSE
       ELSE UNCHANGED <<lw_engaged, lw_requested>>
    /\ lw_stopped' = (lw_stopped \/ (lw_worker /\ lw_requested))
    /\ lw_ev' = [call |-> "stop_watchdog",
                 outcome |-> IF lw_worker THEN "stopping" ELSE "idle",
                 offs |-> IF lw_requested THEN 1 ELSE 0]
    /\ UNCHANGED <<lw_worker, lw_power, lw_starts>>
    /\ UNCHANGED <<clock, engineVars, noiseVars, identVars, encVars, slotVars,
                   hf, cli, ds_bands, ds_call, bridgeVars, rw_pc, rw_bands,
                   rw_interval_ms, rw_band, rw_any_band, rw_elapsed, rw_sleep,
                   rw_proc, rw_iter, rw_seen_stop, rw_finished>>

\* on_worker_finished, run when the finished signal of the worker that
\* self.worker refers to is delivered (src/main.py:1146-1160)
OnWorkerFinished ==
    /\ lw_worker
    /\ rw_pc = "done"
    /\ rw_finished > 0
    /\ lw_requested' = FALSE
    /\ lw_engaged' = FALSE
    /\ lw_worker' = FALSE
    /\ lw_stopped' = FALSE
    /\ lw_ev' = [call |-> "on_worker_finished",
                 outcome |-> IF lw_stopped THEN "after-stop" ELSE "ended",
                 offs |-> IF lw_requested \/ lw_engaged THEN 1 ELSE 0]
    /\ UNCHANGED <<lw_power, lw_starts>>
    /\ UNCHANGED <<clock, engineVars, noiseVars, identVars, encVars, slotVars,
                   hf, cli, ds_bands, ds_call, bridgeVars, runVars>>

InitLife ==
    /\ EngineInit(DefaultConfig, 0)
    /\ NoiseIdle
    /\ IdentIdle
    /\ EncIdle
    /\ SlotIdle
    /\ HostIdle
    /\ BridgeInit(DefaultBridgeConfig)
    /\ rw_pc = "none"
    /\ rw_running = FALSE
    /\ rw_bands = <<FALSE, FALSE>>
    /\ rw_interval_ms = 60000
    /\ rw_band = 1
    /\ rw_any_band = FALSE
    /\ rw_elapsed = 0
    /\ rw_sleep = 0
    /\ rw_proc = NoProc
    /\ rw_iter = NoIter
    /\ rw_ev = ""
    /\ rw_seen_stop = FALSE
    /\ rw_finished = 0

\* The steps of a worker that start_watchdog made: its bands are never
\* all disabled, so the sleep of "No bands enabled" is never entered.
StartedWorkerStep ==
    \/ StartRun
    \/ CycleTop
    \/ BandTop
    \/ \E outcome \in LaunchOutcomes : Launch(outcome)
    \/ \E kind \in LineKinds : ReadLine(kind)
    \/ \E alive \in BOOLEAN, obeys \in BOOLEAN : FrameStep(alive, obeys)
    \/ \E alive \in BOOLEAN, obeys \in BOOLEAN : FrameRaises(alive, obeys)
    \/ Catch
    \/ EndBackoff
    \/ BandsDone
    \/ Interval
    \/ EndIntervalSleep
    \/ Finally

NextLife ==
    \/ \E bands \in StartBandsSet, power \in BOOLEAN, biast \in BOOLEAN :
          StartWatchdog(bands, power, biast)
    \/ StopWatchdog
    \/ OnWorkerFinished
    \/ StartedWorkerStep

SpecLife == InitLife /\ [][NextLife]_vars

\* C34: at most one SweepWorker exists at any time: a worker is constructed
\* only when self.worker is None and no earlier worker is still executing
\* run(); the reference is cleared only by on_worker_finished; and while
\* the reference is None no worker is executing run().
C34_AtMostOneWorker ==
    /\ [][lw_starts' # lw_starts => (~lw_worker /\ NoRun)]_vars
    /\ [][(lw_worker /\ ~lw_worker')
              => lw_ev'.call = "on_worker_finished"]_vars
    /\ [](~lw_worker => NoRun)

\* Start pressed after Stop, before the worker has finished: ignored
C34_Witness ==
    /\ lw_ev.call = "start_watchdog"
    /\ lw_ev.outcome = "ignored"
    /\ lw_worker
    /\ ~rw_running
    /\ rw_pc \notin {"none", "idle", "done"}
    /\ lw_starts = 1

\* C37: when Stop is pressed while Bias-T was requested, a Bias-T off
\* command is issued in stop_watchdog and again in the on_worker_finished
\* call that follows the end of that worker, that is, after the last
\* scanner invocation that could have switched antenna power on.
C37_BiasTeeOffTwice ==
    /\ [][(lw_ev'.call = "stop_watchdog" /\ lw_stopped' /\ ~lw_stopped)
              => lw_ev'.offs = 1]_vars
    /\ [][(lw_worker /\ ~lw_worker' /\ lw_stopped)
              => lw_ev'.offs = 1]_vars

\* ------------------------------------------------------------------------
\* 4.13  One _handle_frame call, statement by statement, beside the GUI
\* thread's writes of the worker's settings (src/main.py:314-443, 859-903).
\* The GUI thread assigns the worker's attributes directly, so a write can
\* fall between any two statements of the call.
\* ------------------------------------------------------------------------
\* _handle_frame calls in one behaviour of this specification
MaxRaceFrames == 1

\* The frames of this specification: two bins each
RaceFrames == {CycleFrame(1), CycleFrame(2)}

\* From "cal_offset = self._net_cal_offset_db()" to "hold = float(...)"
\* (src/main.py:319-356): the settings are read into locals, the noise
\* floor is updated and emitted, time.time() is read.
HandleBegin(f, d) ==
    /\ hf = << >>
    /\ nframes < MaxRaceFrames
    /\ LET now          == clock + d
           cal_offset   == NetCalOffsetDb(cal_gain_db, cal_loss_db)
           powers       == Calibrate(f.powers_dbm, cal_offset)
           median_noise == MedianNoise(powers)
           nf           == SmoothedFloor(noise_floor, median_noise)
           abs_thr      == AbsThreshold(use_local_noise_floor, nf[1],
                                        threshold_db)
       IN  /\ hf' = << [c |-> [powers |-> powers,
                               powers_raw |-> f.powers_dbm,
                               low_hz |-> f.low_hz, bin_w |-> f.bin_width_hz,
                               freq_ppm |-> freq_ppm, ppm_read |-> freq_ppm,
                               abs_threshold |-> abs_thr, now |-> now,
                               hold |-> min_hold_time_s,
                               cal_offset |-> cal_offset, band |-> f.band],
                        frame |-> f, idx |-> 0,
                        prev_floor |-> noise_floor,
                        median_noise |-> median_noise,
                        acc |-> [hs |-> hold_state, dets |-> << >>,
                                 max |-> << >>]] >>
           /\ noise_floor' = nf
           /\ clock' = now
    /\ sig_noise' = sig_noise + 1
    /\ UNCHANGED <<threshold_db, use_local_noise_floor, only_above_threshold,
                   min_hold_time_s, cal_gain_db, cal_loss_db, freq_ppm,
                   hold_state, sig_log, sig_det, nframes, last, hist>>
    /\ UNCHANGED <<noiseVars, identVars, encVars, slotVars, lifeVars, cli,
                   ds_bands, ds_call, bridgeVars, runVars>>

\* One iteration of "for idx in range(n_bins)" (358-406); the detection
\* dict reads self.freq_ppm when it is built (390).
HandleBin ==
    /\ hf # << >>
    /\ hf[1].idx < Len(hf[1].c.powers)
    /\ hf' = << [hf[1] EXCEPT
                   !.acc = BinStep([hf[1].c EXCEPT !.ppm_read = freq_ppm],
                                   hf[1].acc, hf[1].idx),
                   !.idx = @ + 1] >>
    /\ UNCHANGED <<clock, engineVars, noiseVars, identVars, encVars, slotVars,
                   lifeVars, cli, ds_bands, ds_call, bridgeVars, runVars>>

\* The cleanup and the emissions after the loop (408-443); hold_state is
\* the map as the call leaves it.
HandleEnd ==
    /\ hf # << >>
    /\ hf[1].idx = Len(hf[1].c.powers)
    /\ LET h      == hf[1]
           logged == LogsMax(only_above_threshold, h.acc.max[1].power,
                             h.c.abs_threshold)
       IN  /\ hold_state' = Reap(h.acc.hs, h.c.now, h.c.hold)
           /\ sig_log' = sig_log + (IF logged THEN 1 ELSE 0)
           /\ sig_det' = sig_det + (IF h.acc.dets # << >> THEN 1 ELSE 0)
           /\ hist' = HistLoop(h.c, hist, 0)
           /\ last' = [frame |-> h.frame, ran |-> TRUE, now |-> h.c.now,
                       prev_floor |-> h.prev_floor,
                       median_noise |-> h.median_noise,
                       abs_threshold |-> h.c.abs_threshold,
                       hold |-> h.c.hold, detections |-> h.acc.dets,
                       max |-> h.acc.max, logged |-> logged,
                       reaped |-> StaleKeys(h.acc.hs, h.c.now, h.c.hold)]
    /\ hf' = << >>
    /\ nframes' = nframes + 1
    /\ UNCHANGED <<clock, threshold_db, use_local_noise_floor,
                   only_above_threshold, min_hold_time_s, cal_gain_db,
                   cal_loss_db, freq_ppm, noise_floor, sig_noise>>
    /\ UNCHANGED <<noiseVars, identVars, encVars, slotVars, lifeVars, cli,
                   ds_bands, ds_call, bridgeVars, runVars>>

InitRace ==
    /\ EngineInit(DefaultConfig, 0)
    /\ NoiseIdle
    /\ IdentIdle
    /\ EncIdle
    /\ SlotIdle
    /\ HostIdle
    /\ BridgeInit(DefaultBridgeConfig)
    /\ RunIdle

NextRace ==
    \/ \E f \in RaceFrames : HandleBegin(f, TicksPerSec)
    \/ HandleBin
    \/ HandleEnd
    \/ GuiStep

SpecRace == InitRace /\ [][NextRace]_vars

\* The bin of the last frame that detection det was made for
BinOfDetection(det) ==
    { i \in 1..Len(last.frame.powers_dbm) :
        /\ det.freq_mhz_raw =
              CalFreq(Center2(last.frame.low_hz, i - 1,
                              last.frame.bin_width_hz), 0)
        /\ det.power_dbm_raw = last.frame.powers_dbm[i] }

\* The ppm field of det is the ppm whose factor produced det.freq_mhz
PpmConsistent(det) ==
    \E i \in BinOfDetection(det) :
        det.freq_mhz = CalFreq(Center2(last.frame.low_hz, i - 1,
                                       last.frame.bin_width_hz), det.freq_ppm)

\* The offset field of det is the offset that produced det.power_dbm
OffsetConsistent(det) == det.power_dbm = det.power_dbm_raw + det.cal_offset_db

\* With hold_time 0, the bins of the frame at or above the one threshold
\* of the call are exactly the bins with a detection, under one offset.
OneThreshold ==
    \A off \in {last.detections[j].cal_offset_db :
                    j \in 1..Len(last.detections)} :
        \A i \in 1..Len(last.frame.powers_dbm) :
            ((last.frame.powers_dbm[i] + off) * NFScale >= last.abs_threshold)
                <=> \E j \in 1..Len(last.detections) :
                       i \in BinOfDetection(last.detections[j])

\* C35: every DetectionEvent is self-consistent under concurrent settings
\* changes from the GUI thread: its freq_ppm is the ppm that produced its
\* freq_mhz from freq_mhz_raw, its cal_offset_db is the offset for which
\* power_dbm = power_dbm_raw + cal_offset_db, and all detections of one
\* frame were judged against one effective threshold.
C35_SelfConsistentDetections ==
    last.ran =>
        /\ \A j \in 1..Len(last.detections) :
              /\ PpmConsistent(last.detections[j])
              /\ OffsetConsistent(last.detections[j])
        /\ OneThreshold

\* The parts of C35 that the code keeps
C35_OffsetAndThreshold ==
    last.ran =>
        /\ \A j \in 1..Len(last.detections) :
              OffsetConsistent(last.detections[j])
        /\ OneThreshold

\* The step is a send_detection call that was suppressed
SuppressedSend ==
    /\ br_ncalls' # br_ncalls
    /\ br_call'.path = "bridge"
    /\ br_call'.outcome \in {"disabled", "rate-limited"}

\* C36: a suppressed send_detection call (bridge disabled, or the same
\* identity key sent less than one second ago) changes nothing: no
\* datagram, no socket, no status event, and the rate-limit map is as it
\* was, so suppressed calls never extend the one-second window; a call is
\* suppressed only by the bridge being disabled or by its own key's last
\* send, never by another key's.
C36_SuppressedSendChangesNothing ==
    /\ [][SuppressedSend
              => /\ UNCHANGED <<br_cfg, br_sock, br_last_sent, br_ip_cache,
                                br_sent_at>>
                 /\ br_call'.datagram = << >>
                 /\ br_call'.status = ""
                 /\ ~br_call'.sent
                 /\ br_call'.probes = 0]_vars
    /\ [][(SuppressedSend /\ br_call'.outcome = "rate-limited")
              => /\ br_cfg.enabled
                 /\ br_call'.key \in DOMAIN br_last_sent
                 /\ clock - br_last_sent[br_call'.key] < OneSecond]_vars
    /\ [][(SuppressedSend /\ br_call'.outcome = "disabled")
              => ~br_cfg.enabled]_vars

\* A call for a key sent half a second earlier was suppressed while the
\* time of that send is still the one recorded
C36_Witness ==
    /\ br_call.path = "bridge"
    /\ br_call.outcome = "rate-limited"
    /\ br_call.key \in DOMAIN br_last_sent
    /\ br_last_sent[br_call.key] < clock

\* ------------------------------------------------------------------------
\* 4.14  The command-line program (src/hackrf_watchdog/cli.py:52-107,
\* detect.py:20-80).  iter_sweep_frames is a generator function: calling
\* it runs none of its body; subprocess.Popen runs at the first next(),
\* inside the for statement of detect_on_sweep_stream.
\* A band's smoothed power is the exact fraction num / 5^k (smoothing
\* factor 0.8 = 4/5); k = None stands for float("-inf").
\* ------------------------------------------------------------------------
MaxCliFrames == 3

\* DetectorConfig.min_alert_interval_s = 0.5 (config.py:32), in ticks
MinAlertInterval == TicksPerSec \div 2

\* cfg.bands: name, band_freq_range (detect.py:15-17) and threshold_db.
\* The names are distinct, so band_states[band.name] and
\* band_ranges[band.name] are written as the state and the range of the
\* i-th band.
CliBands ==
    << [name |-> "X", low |-> 100 * MHz - 5000, high |-> 100 * MHz + 5000,
        threshold_db |-> -40],
       [name |-> "Y", low |-> 899 * MHz, high |-> 901 * MHz,
        threshold_db |-> -50] >>

\* Frames of two bins, with bins in band X only, in band Y only, in both
CliFrames ==
    { Frame("", lo[1], lo[2], ps) :
        lo \in {<<100 * MHz, 5000>>, <<900 * MHz, MHz>>,
                <<100 * MHz, 800 * MHz>>},
        ps \in {<<-90, -90>>, <<-30, -90>>, <<-50, -90>>, <<-45, -30>>} }

\* BandState() (detect.py:8-12)
NewBandState == [k |-> None, num |-> 0, last_power |-> None,
                 last_alert_time |-> 0]

RECURSIVE Pow5(_)
Pow5(k) == IF k = 0 THEN 1 ELSE 5 * Pow5(k - 1)

\* "for i, p in enumerate(powers): bin_freq = low_hz + i * bin_width;
\* if low <= bin_freq <= high" (detect.py:47-52)
BandPowers(f, band) ==
    { f.powers_dbm[i] : i \in { j \in 1..Len(f.powers_dbm) :
        /\ band.low <= f.low_hz + (j - 1) * f.bin_width_hz
        /\ f.low_hz + (j - 1) * f.bin_width_hz <= band.high } }

SetMax(S) == CHOOSE x \in S : \A y \in S : y <= x

\* detect.py:59-66
Smoothed(st, inst) ==
    IF st.k = None THEN [k |-> 0, num |-> inst]
    ELSE [k |-> st.k + 1, num |-> 4 * st.num + inst * Pow5(st.k)]

\* Variant: a power equal to the threshold counts.
OverThreshold_OrEqual(sm, thr) == sm.num >= thr * Pow5(sm.k)

\* "if state.smoothed_power_db > band.threshold_db" (detect.py:70)
OverThreshold(sm, thr) == sm.num > thr * Pow5(sm.k)

\* The body of "for band in cfg.bands" for one band (detect.py:44-80):
\* the band's state after the frame and whether on_alert was called
BandStep(st, band, f, now) ==
    LET ps == BandPowers(f, band)
    IN  IF ps = {} THEN [state |-> st, touched |-> FALSE, alert |-> FALSE]
        ELSE LET inst  == SetMax(ps)
                 sm    == Smoothed(st, inst)
                 alert == /\ OverThreshold(sm, band.threshold_db)
                          /\ now - st.last_alert_time > MinAlertInterval
             IN  [state |-> [k |-> sm.k, num |-> sm.num,
                             last_power |-> inst,
                             last_alert_time |-> IF alert THEN now
                                                 ELSE st.last_alert_time],
                  touched |-> TRUE, alert |-> alert]

\* main() up to the creation of the generator (cli.py:56-95): nothing of
\* iter_sweep_frames has run, so the except clause at 96 has nothing to
\* catch.
CliSetup ==
    /\ cli.pc = "start"
    /\ cli' = [cli EXCEPT !.pc = "ready", !.out = <<"Sweeping", "Bands:">>]
    /\ UNCHANGED <<clock, engineVars, noiseVars, identVars, encVars, slotVars,
                   lifeVars, hf, ds_bands, ds_call, bridgeVars, runVars>>

\* The text of the traceback of an exception that nothing catches
Traceback(outcome) ==
    IF outcome = "not_found" THEN "Traceback: SweepBackendError"
    ELSE "Traceback: OSError"

\* detect_on_sweep_stream is called (cli.py:105), builds band_states
\* (detect.py:30-36) and asks the generator for its first frame: Popen runs.
\* An exception of the generator passes through detect_on_sweep_stream and
\* the "except KeyboardInterrupt" of main: the interpreter prints the
\* traceback and exits with status 1.
CliFirstNext(outcome) ==
    /\ cli.pc = "ready"
    /\ ds_bands' = [i \in DOMAIN CliBands |-> NewBandState]
    /\ cli' = IF outcome = "ok"
              THEN [cli EXCEPT !.pc = "stream", !.launch = outcome,
                               !.detect = TRUE]
              ELSE [cli EXCEPT !.pc = "exit", !.launch = outcome,
                               !.detect = TRUE,
                               !.out = Append(@, Traceback(outcome)),
                               !.status = 1]
    /\ UNCHANGED <<clock, engineVars, noiseVars, identVars, encVars, slotVars,
                   lifeVars, hf, ds_call, bridgeVars, runVars>>

\* One iteration of "for frame in sweep_iter" (detect.py:38-80); the frame
\* arrives d ticks after the previous one.
CliFrame(f, d) ==
    /\ cli.pc = "stream"
    /\ cli.consumed < MaxCliFrames
    /\ LET now == clock + d
           r   == [i \in DOMAIN CliBands |->
                      BandStep(ds_bands[i], CliBands[i], f, now)]
       IN  /\ ds_bands' = [i \in DOMAIN CliBands |-> r[i].state]
           /\ ds_call' = << [frame |-> f, now |-> now, before |-> ds_bands,
                             touched |-> [i \in DOMAIN CliBands |->
                                             r[i].touched],
                             alert |-> [i \in DOMAIN CliBands |->
                                           r[i].alert]] >>
           /\ clock' = now
    /\ cli' = [cli EXCEPT !.consumed = @ + 1]
    /\ UNCHANGED <<engineVars, noiseVars, identVars, encVars, slotVars,
                   lifeVars, hf, bridgeVars, runVars>>

\* The scanner's output ends: without a frame the generator raises
\* SweepBackendError (sweep_backend.py:107-117), which nothing catches;
\* otherwise detect_on_sweep_stream and main return.
CliEnd ==
    /\ cli.pc = "stream"
    /\ cli' = IF cli.consumed = 0
              THEN [cli EXCEPT !.pc = "exit", !.status = 1,
                               !.out = Append(@, Traceback("not_found"))]
              ELSE [cli EXCEPT !.pc = "exit", !.status = 0]
    /\ UNCHANGED <<clock, engineVars, noiseVars, identVars, encVars, slotVars,
                   lifeVars, hf, ds_bands, ds_call, bridgeVars, runVars>>

\* Ctrl-C while the stream is read (cli.py:106-107)
CliInterrupt ==
    /\ cli.pc = "stream"
    /\ cli' = [cli EXCEPT !.pc = "exit", !.status = 0,
                          !.out = Append(@, "Stopped by user.")]
    /\ UNCHANGED <<clock, engineVars, noiseVars, identVars, encVars, slotVars,
                   lifeVars, hf, ds_bands, ds_call, bridgeVars, runVars>>

InitCli ==
    /\ EngineInit(DefaultConfig, 0)
    /\ NoiseIdle
    /\ IdentIdle
    /\ EncIdle
    /\ SlotIdle
    /\ HostIdle
    /\ BridgeInit(DefaultBridgeConfig)
    /\ RunIdle

NextCli ==
    \/ CliSetup
    \/ \E outcome \in LaunchOutcomes : CliFirstNext(outcome)
    \/ \E f \in CliFrames, d \in {MinAlertInterval, TicksPerSec} :
          CliFrame(f, d)
    \/ CliEnd
    \/ CliInterrupt

SpecCli == InitCli /\ [][NextCli]_vars

\* cli.out contains the line s
Printed(s) == \E i \in 1..Len(cli.out) : cli.out[i] = s

\* C38: when the scanner executable is missing, the start-up handler of
\* main catches the failure: "Error starting hackrf_sweep" is printed and
\* the process exits with status 1 before detect_on_sweep_stream starts
\* consuming frames.
C38_MissingScannerReported ==
    (cli.pc = "exit" /\ cli.launch = "not_found")
        => /\ Printed("Error starting hackrf_sweep")
           /\ cli.status = 1
           /\ cli.consumed = 0

\* What the last frame did to band i of CliBands
AlertedFor(i) == ds_call[1].alert[i]

StrictlyOver(st, thr) == st.k # None /\ st.num > thr * Pow5(st.k)

IntervalPassed(i) ==
    ds_call[1].now - ds_call[1].before[i].last_alert_time > MinAlertInterval

AppliedWithoutUid ==
    /\ br_call'.path = "apply_config"
    /\ \E c \in BridgeConfigSet :
          /\ c.static_uid = ""
          /\ [br_cfg' EXCEPT !.static_uid = ""] = c

\* C39: after load_config and after any sequence of apply_config and
\* set_enabled calls the bridge's static_uid is non-empty, and an
\* apply_config whose new configuration has an empty static_uid keeps the
\* previous static_uid.
C39_StaticUidKept ==
    /\ [](br_cfg.static_uid # "")
    /\ [][AppliedWithoutUid => br_cfg'.static_uid = br_cfg.static_uid]_vars

\* A configuration given without static_uid is in force with the
\* identifier that load_config generated
C39_Witness ==
    /\ br_call.path = "apply_config"
    /\ br_cfg.host = "10.0.0.7"
    /\ br_cfg.static_uid = "WD-1"

====
